---- MODULE Spec2Model ----
(***************************************************************************)
(* The PTY session daemon of internal/daemon: the broker (Server), its     *)
(* session registry, the per-connection handlers and the two goroutines    *)
(* every session owns (sessionReadLoop, sessionWaitLoop).                  *)
(***************************************************************************)
EXTENDS Integers, Sequences, FiniteSets, TLC

\* ------------------------------------------------------------------ bounds
MaxExits  == 1      \* children that exit over a run
MaxChunks == 1      \* chunks the session readers read from their PTYs over a run
MaxReq    == 2      \* client frames the server reads over a run
SockCap   == 1      \* frames a socket holds for a client that stopped reading
MaxWireChunks  == 2 \* chunks the reader writes to the connection of the wire model
MaxWireReplies == 1 \* replies a handler writes to the connection of the wire model
MaxWsOutputs   == 2 \* chunks the PTY manager's sessions output over a run
MaxCalls       == 4 \* calls of Start, Write, Resize and Close on the session of the method model
MaxStarts      == 2 \* times the pane of the pane model is started
MaxFrames      == 2 \* frames written back to back in the codec model
MaxArgs        == 2 \* arguments of a CREATE payload in the codec model
MaxTickets     == 2 \* tickets the board of the board model holds at a time
MaxMutations   == 3 \* mutations applied to the board of the board model over a run
MaxClock       == 2 \* readings of the wall clock in the board model (1..MaxClock)
MaxSubscribes  == 2 \* board:subscribe messages the daemon handles over a run

Conns == {"A", "B"}             \* connections the listener can accept
IDs   == {"s1", "s2"}           \* session ids clients use
Objs  == {1, 2}                 \* *Session objects, in order of creation
NoObj == 0

\* CREATE payloads as DecodeCreate returns them (workdir, command, args): each
\* client has a command of its own, or sends none
CreateSpecs(c) ==
    { IF c = "A" THEN [workdir |-> "/tmp", command |-> "sh",  args |-> <<"-c", "x">>]
                 ELSE [workdir |-> "",     command |-> "cat", args |-> <<>>],
      [workdir |-> "", command |-> "", args |-> <<>>] }
NoSpec == [workdir |-> "", command |-> "", args |-> <<>>]

Sizes == { <<40, 132>> }        \* RESIZE payloads (rows, cols)
NoSize == <<0, 0>>
ShortSize == <<>>                \* a RESIZE payload of fewer than 4 bytes
ScrollCap      == 3 \* largest capacity of a scrollback buffer
MaxPushes      == 5 \* lines pushed to a scrollback buffer since its last Clear
PaneRows       == 4 \* rows of the pane's screen
MaxSpawns      == 3 \* processes the PTY manager spawns
MaxSockets     == 3 \* WebSockets the TUI's connection creates

\* ------------------------------------------------------------------ state
VARIABLES
    clients,     \* Server.clients: connection -> clientConn.sessionID ("" = unattached)
    sessions,    \* Server.sessions: session id -> *Session
    pc,          \* handleClient goroutine of each connection
    req,         \* the frame a handler is serving and the reply it is writing
    sockOpen,    \* the server's end of the connection is open (conn.Close not called)
    peerOpen,    \* the client's end of the connection is open
    stopped,     \* the client no longer reads from its socket
    unread,      \* frames queued in the socket of a client that stopped reading
    nReq,        \* client frames the server has read
    objID,       \* Session.ID
    objSpec,     \* Session.cmd (command, args) and Session.workdir
    running,     \* Session.running
    winsize,     \* window size of the session's PTY
    ptyIn,       \* payloads written to the session's PTY
    nSpawn,      \* sessions started so far
    chunks,      \* chunks sessionReadLoop has read from the PTY
    readPC,      \* sessionReadLoop goroutine of each session
    readConns,   \* conns of the reader's broadcastToSession still to be written
    waitPC,      \* sessionWaitLoop goroutine of each session
    waitConns,   \* conns of the waiter's broadcastToSession still to be written
    exitsTo,     \* EXIT frames of each session written to each connection
    srv,         \* the daemon process: its listener, its socket file, its exit
    wire,        \* one connection's byte stream and the goroutines writing frames to it
    ws,          \* the WebSocket front end: its clients, their subscriptions, the PTY manager
    inst,        \* the rendezvous socket file, the daemons started on it, their launchers
    pidf,        \* the PID file of the HTTP daemon and the processes that start on it
    session,     \* one Session object driven through its methods, and its child
    pane,        \* one terminal Pane of the TUI, its child and its StopGraceful call
    codec,       \* one call of a codec function: its input and its result
    env,         \* the environment of a spawning process and the one it hands to the child
    board,       \* the board store of the HTTP daemon, its timer and its files
    term,        \* a terminal pane's scrollback buffer, viewport offset and selection
    agent,       \* the server's PTY sessions, agent sessions and the tickets' terminalSessionId
    tui          \* the TUI's WebSocket connection: its sockets, reconnect timer and attempts

\* the state of the broker and its sessions
daemonVars == << clients, sessions, pc, req, sockOpen, peerOpen, stopped, unread, nReq,
                 objID, objSpec, running, winsize, ptyIn, nSpawn, chunks,
                 readPC, readConns, waitPC, waitConns, exitsTo >>

\* the state of the programs other than the session daemon
outsideDaemon == << wire, ws, inst, pidf, session, pane, codec, env, board, term, agent, tui >>

vars == << daemonVars, srv, outsideDaemon >>

regVars  == << clients, sessions >>
connVars == << pc, req, sockOpen, peerOpen, stopped >>
sessVars == << objID, objSpec, running, winsize, ptyIn, nSpawn >>
loopVars == << chunks, readPC, readConns, waitPC, waitConns >>

\* ------------------------------------------------------------------ helpers
MapPut(f, k, v) == [x \in DOMAIN f \cup {k} |-> IF x = k THEN v ELSE f[x]]
MapDel(f, k)    == [x \in DOMAIN f \ {k} |-> f[x]]
EmptyMap        == [x \in {} |-> 0]

\* the orders in which a range over a Go map can yield the members of S
Perms(S) ==
    { s \in [1..Cardinality(S) -> S] :
        \A i, j \in 1..Cardinality(S) : i # j => s[i] # s[j] }

\* Server.mu is write-locked across steps only by a handler that is inside
\* WriteMessage while it holds the lock (handleCreate, handleAttach)
muLocked == \E c \in Conns : pc[c] = "writeLocked"

\* WriteMessage(conn, ...) cannot proceed: the client stopped reading and the
\* socket is full
Blocked(c) == sockOpen[c] /\ peerOpen[c] /\ stopped[c] /\ unread[c] >= SockCap

\* WriteMessage(conn, ...) puts the frame on the wire to the client
Delivers(c) == sockOpen[c] /\ peerOpen[c] /\ ~Blocked(c)

\* the socket buffer after WriteMessage(conn, ...) returned
Wrote(c) ==
    IF Delivers(c) /\ stopped[c] THEN [unread EXCEPT ![c] = @ + 1] ELSE unread

OK == [type |-> "SESSION_OK", data |-> <<>>]
Err(msg) == [type |-> "SESSION_ERROR", data |-> msg]
NoReply == [type |-> "", data |-> <<>>]
NoReq == [type |-> "", id |-> "", reply |-> NoReply]

\* the handler of c is in ReadMessage and a frame of the client is read
Reads(c) == pc[c] = "read" /\ peerOpen[c] /\ nReq < MaxReq

\* the handler of a frame of type t for session id calls
\* WriteMessage(conn, frame), holding Server.mu when `locked`
Writes(c, t, id, frame, locked) ==
    /\ req' = [req EXCEPT ![c] = [type |-> t, id |-> id, reply |-> frame]]
    /\ pc' = [pc EXCEPT ![c] = IF locked THEN "writeLocked" ELSE "write"]

\* ------------------------------------------------------------------ Init
\* daemonRunCmd after server.Start: listening on its socket file
Serving == [state |-> "serving", listening |-> TRUE, sockFile |-> TRUE, closed |-> {}]

\* NewServer: no client, no session
daemonInit ==
    /\ clients = EmptyMap
    /\ sessions = EmptyMap
    /\ pc = [c \in Conns |-> "idle"]
    /\ req = [c \in Conns |-> NoReq]
    /\ sockOpen = [c \in Conns |-> TRUE]
    /\ peerOpen = [c \in Conns |-> TRUE]
    /\ stopped = [c \in Conns |-> FALSE]
    /\ unread = [c \in Conns |-> 0]
    /\ nReq = 0
    /\ objID = [o \in Objs |-> ""]
    /\ objSpec = [o \in Objs |-> NoSpec]
    /\ running = [o \in Objs |-> FALSE]
    /\ winsize = [o \in Objs |-> NoSize]
    /\ ptyIn = [o \in Objs |-> 0]
    /\ nSpawn = 0
    /\ chunks = [o \in Objs |-> 0]
    /\ readPC = [o \in Objs |-> "none"]
    /\ readConns = [o \in Objs |-> <<>>]
    /\ waitPC = [o \in Objs |-> "none"]
    /\ waitConns = [o \in Objs |-> <<>>]
    /\ exitsTo = [c \in Conns |-> [o \in Objs |-> 0]]
    /\ srv = Serving

\* the goroutines of the server that write frames to one connection
Writers == {"reader", "waiter", "handler"}

\* a connection nothing was written to yet, attached to a session
wireInit ==
    wire = [stream |-> <<>>, todo |-> [w \in Writers |-> <<>>],
            read |-> <<>>, exited |-> FALSE, replies |-> 0]

\* WebSocket connections and terminal session ids of the WebSocket front end
Ws    == {"w1", "w2"}
Terms == {"t1", "t2"}

\* the WebSocket server before any connection: no client, no PTY session
wsInit ==
    ws = [clients |-> {}, subscribed |-> [w \in Ws |-> {}],
          sessions |-> {}, used |-> {}, subscribers |-> [t \in Terms |-> {}],
          outputs |-> 0, sentTo |-> [w \in Ws |-> {}]]

\* daemon processes that may be started on the socket path, and the callers
\* of EnsureDaemon (launcher l starts the daemon Spawned(l))
Daemons   == {"d1", "d2"}
Launchers == {"l1", "l2"}
Spawned(l) == IF l = "l1" THEN "d1" ELSE "d2"

\* no daemon runs; the socket path is free or holds the file f
instStart(f) ==
    [sockFile |-> f, d |-> [x \in Daemons |-> "off"], l |-> [x \in Launchers |-> "off"]]

\* no daemon runs and no socket file exists
instInit == inst = instStart("none")

\* processes that run Daemon.start; "p0" is the pid of a process that is gone
Procs == {"p1", "p2"}
NoPid == "null"

\* no process has started; the PID file is absent ("none") or holds f
pidfStart(f) ==
    [file |-> f, pc |-> [x \in Procs |-> "off"], pid |-> [x \in Procs |-> NoPid],
     err |-> [x \in Procs |-> ""], port |-> "free"]

\* no process has started and there is no PID file
pidfInit == pidf = pidfStart("none")

\* NewSession: no PTY master, not running, the command not started
sessionInit ==
    session = [running |-> FALSE, ptmx |-> "nil", child |-> "none",
               op |-> "", ret |-> "", calls |-> 0, ptyOps |-> 0]

\* terminal.New: no PTY, no command, not running
paneInit ==
    pane = [running |-> FALSE, pty |-> "nil", child |-> "none", pc |-> "idle",
            waiting |-> FALSE, done |-> FALSE, timer |-> FALSE, sigs |-> <<>>,
            starts |-> 0, stops |-> 0]

\* a run of n bytes b: byte strings are sequences of runs, so that a payload
\* of 1 MiB is a value the model can hold
Run(b, n) == [b |-> b, n |-> n]

\* ReadMessage's result before any call
NoRead == [err |-> "", type |-> 0, data |-> << >>, rest |-> << >>, alloc |-> 0]

\* no codec function was called
codecIdle ==
    [op |-> "", done |-> FALSE,
     stream |-> << >>, res |-> NoRead,
     msgs |-> << >>, tail |-> << >>, decoded |-> << >>,
     rows |-> 0, cols |-> 0, size |-> [rows |-> 0, cols |-> 0, err |-> ""],
     create |-> [sessionID |-> << >>, workdir |-> << >>, command |-> << >>, args |-> << >>],
     made |-> [sessionID |-> << >>, workdir |-> << >>, command |-> << >>, args |-> << >>]]

codecInit == codec = codecIdle

\* no child was spawned
envIdle == [who |-> "", environ |-> << >>, sessionName |-> "", out |-> << >>, done |-> FALSE]

envInit == env = envIdle

\* an optional timestamp that is undefined (timestamps are clock readings,
\* from 1), and an optional string that is undefined
NoTime == 0
Undef  == "undefined"

\* the fields of a Ticket the model keeps, and those that hold numbers
Fields    == {"id", "description", "status", "worktreePath",
              "createdAt", "updatedAt", "startedAt", "completedAt"}
IntFields == {"id", "createdAt", "updatedAt", "startedAt", "completedAt"}

\* the value a field has when the object does not carry it
Missing(k) == IF k \in IntFields THEN NoTime ELSE Undef

\* obj[k] of a JavaScript object
Field(obj, k) == IF k \in DOMAIN obj THEN obj[k] ELSE Missing(k)

\* DEFAULT_SETTINGS (the agent is the setting the model keeps)
DEFAULT_SETTINGS == [defaultAgent |-> "opencode"]

\* createBoard(name): no tickets, the default settings
createBoard == [tickets |-> << >>, settings |-> DEFAULT_SETTINGS]

\* a path that names no file, and a file holding text (whole: the writer
\* wrote all of it)
NoFile == [exists |-> FALSE, whole |-> FALSE, text |-> << >>]
WholeFile(text)   == [exists |-> TRUE, whole |-> TRUE,  text |-> text]
PartialFile(text) == [exists |-> TRUE, whole |-> FALSE, text |-> text]

\* JSON.stringify of an object: the members whose value is undefined are left out
StringifyObject(obj) ==
    LET Kept == { k \in DOMAIN obj : obj[k] # Missing(k) } IN
    [k \in Kept |-> obj[k]]

\* JSON.stringify(this.board, null, 2)
Stringify(b) ==
    [tickets  |-> [i \in 1..Len(b.tickets) |-> StringifyObject(b.tickets[i])],
     settings |-> b.settings]

\* the ticket JSON.parse yields for a serialized ticket, read field by field
ParseObject(text) == [k \in Fields |-> Field(text, k)]

\* JSON.parse(data) as Board
Parse(text) ==
    [tickets  |-> [i \in 1..Len(text.tickets) |-> ParseObject(text.tickets[i])],
     settings |-> text.settings]

\* BoardStore.load: the board of board.json, or a new board when the file is
\* missing or JSON.parse throws
load(file) ==
    IF file.exists /\ file.whole THEN Parse(file.text) ELSE createBoard

\* no ticket
NoTicket == [k \in Fields |-> Missing(k)]

\* the last operation on the store: the ticket it was applied to as it was
\* before, and the fields of the patch handed to updateTicket
Op(op, id, keys, before) == [op |-> op, id |-> id, keys |-> keys, before |-> before]

\* no operation was applied yet
NoOp == Op("", 0, {}, NoTicket)

\* WebSocket connections of the HTTP daemon (the `clients` map)
WsClients == {"w1", "w2"}

\* new BoardStore() with board.json as `file`: no timer, nothing in flight;
\* no connection is board-subscribed and nothing was sent to any
\* (dirty: the files whose data the system has not yet written to the disk)
boardStart(file) ==
    [tickets |-> load(file).tickets, settings |-> load(file).settings,
     now |-> 1, made |-> Len(load(file).tickets), nMut |-> 0,
     saveTimeout |-> 0, timers |-> {}, pc |-> "idle",
     tmp |-> NoFile, json |-> file, dirty |-> {},
     held |-> {Stringify(load(file))} \cup (IF file.exists THEN {file.text} ELSE {}),
     last |-> NoOp,
     subs |-> {}, events |-> [c \in WsClients |-> << >>], nSub |-> 0]

\* the store of a first run: no board.json
boardInit == board = boardStart(NoFile)

\* a nil line, and the lines a terminal row can hold (a line is a nil or
\* non-nil slice of glyphs)
NilLine == [isNil |-> TRUE, glyphs |-> << >>]
Line(glyphs) == [isNil |-> FALSE, glyphs |-> glyphs]

\* NewScrollbackBuffer: the capacity it takes when given none
DefaultCapacity == 10000

\* NewScrollbackBuffer(capacity): `capacity` nil lines, nothing stored
NewScrollbackBuffer(capacity) ==
    LET cap == IF capacity <= 0 THEN DefaultCapacity ELSE capacity IN
    [lines |-> [i \in 0..(cap - 1) |-> NilLine], head |-> 0, count |-> 0, capacity |-> cap]

\* the zero Position
ZeroPos == [Row |-> 0, Col |-> 0]

\* NewSelectionState: idle, anchor and cursor zero
NewSelectionState == [Mode |-> "SelectionIdle", Anchor |-> ZeroPos, Cursor |-> ZeroPos]

\* a started pane with a scrollback of the given size: live view, no
\* selection (pushed: the lines pushed since the last Clear, oldest first)
termStart(scrollbackSize) ==
    [scrollback |-> NewScrollbackBuffer(scrollbackSize), pushed |-> << >>,
     viewportOffset |-> 0, selection |-> NewSelectionState]

termInit == term = termStart(1)

\* no session id (terminalSessionId: undefined; session ids are 1, 2, ...)
NoSession == 0

\* the tickets of the board the agent requests name
AgentTickets == {"t1", "t2"}

\* new PtyManager(), new AgentSpawner(), tickets without a terminal session:
\* no process, no session (made: the processes spawned so far)
agentStart ==
    [sessions |-> {}, agentSessions |-> [t \in AgentTickets |-> NoSession],
     terminalSessionId |-> [t \in AgentTickets |-> NoSession], made |-> 0]

agentInit == agent = agentStart

\* this.ws = null (sockets are numbered from 1 in the order of creation)
NoSocket == 0

\* new Connection(port, callbacks): no socket, no reconnect timer, no
\* attempts (readyState: the sockets created and their states; disconnected:
\* disconnect() was called)
tuiStart ==
    [ws |-> NoSocket, readyState |-> << >>, reconnectTimer |-> FALSE,
     reconnectAttempts |-> 0, disconnected |-> FALSE]

tuiInit == tui = tuiStart

\* every program but the one named k is in its initial state and stays there
IdleExcept(k) ==
    /\ IF k # "daemon" THEN daemonInit ELSE TRUE
    /\ IF k # "wire" THEN wireInit ELSE TRUE
    /\ IF k # "ws" THEN wsInit ELSE TRUE
    /\ IF k # "inst" THEN instInit ELSE TRUE
    /\ IF k # "pidf" THEN pidfInit ELSE TRUE
    /\ IF k # "session" THEN sessionInit ELSE TRUE
    /\ IF k # "pane" THEN paneInit ELSE TRUE
    /\ IF k # "codec" THEN codecInit ELSE TRUE
    /\ IF k # "env" THEN envInit ELSE TRUE
    /\ IF k # "board" THEN boardInit ELSE TRUE
    /\ IF k # "term" THEN termInit ELSE TRUE
    /\ IF k # "agent" THEN agentInit ELSE TRUE
    /\ IF k # "tui" THEN tuiInit ELSE TRUE

Init == daemonInit /\ IdleExcept("daemon")

\* ------------------------------------------------------------------ connections
\* Server.Accept: one accepted connection (the connections are named in the
\* order in which the listener accepts them)
Accept(c) ==
    /\ srv.listening
    /\ pc[c] = "idle"
    /\ c = "B" => pc["A"] # "idle"
    /\ ~muLocked
    /\ clients' = MapPut(clients, c, "")
    /\ pc' = [pc EXCEPT ![c] = "read"]
    /\ UNCHANGED << sessions, req, sockOpen, peerOpen, stopped, unread, nReq >>
    /\ UNCHANGED << sessVars, loopVars, exitsTo >>
    /\ UNCHANGED << srv, outsideDaemon >>

\* the client closes its end (Client.Close, or the client process ends)
ClientClose(c) ==
    /\ pc[c] \in {"read", "write", "writeLocked"}
    /\ peerOpen[c]
    /\ peerOpen' = [peerOpen EXCEPT ![c] = FALSE]
    /\ UNCHANGED << regVars, pc, req, sockOpen, stopped, unread, nReq >>
    /\ UNCHANGED << sessVars, loopVars, exitsTo >>
    /\ UNCHANGED << srv, outsideDaemon >>

\* the client stops reading from its socket, for good (the slow client is
\* named B)
ClientStop(c) ==
    /\ pc[c] = "read"
    /\ peerOpen[c]
    /\ ~stopped[c]
    /\ c = "B"
    /\ stopped' = [stopped EXCEPT ![c] = TRUE]
    /\ UNCHANGED << regVars, pc, req, sockOpen, peerOpen, unread, nReq >>
    /\ UNCHANGED << sessVars, loopVars, exitsTo >>
    /\ UNCHANGED << srv, outsideDaemon >>

\* Server.removeClient
removeClient(c) == MapDel(clients, c)

\* a removeClient that also drops the session the connection was attached to
removeClient_DropsSession(c) == MapDel(sessions, clients[c])

\* Server.removeClient: the registry as it leaves it (it deletes from
\* Server.clients only)
removeClientSessions(c) == sessions

\* a deferred function that leaves the connection open
connClose_LeavesOpen(c) == sockOpen

\* conn.Close() in the deferred function of handleClient
connClose(c) == [sockOpen EXCEPT ![c] = FALSE]

\* handleClient: ReadMessage fails (EOF after the client closed, at a frame
\* boundary or inside a frame, or a frame longer than 1 MiB from a live
\* client); the deferred function starts with removeClient
ReadError(c, err) ==
    /\ pc[c] = "read"
    /\ ~muLocked
    /\ (err \in {"EOF", "unexpected EOF"}) = ~peerOpen[c]
    /\ clients' = removeClient(c)
    /\ sessions' = removeClientSessions(c)
    /\ pc' = [pc EXCEPT ![c] = "removed"]
    /\ UNCHANGED << req, sockOpen, peerOpen, stopped, unread, nReq >>
    /\ UNCHANGED << sessVars, loopVars, exitsTo >>
    /\ UNCHANGED << srv, outsideDaemon >>

\* handleClient: the deferred function ends with conn.Close(), which ends the
\* connection for the client too and frees its socket buffer
ConnClose(c) ==
    /\ pc[c] = "removed"
    /\ sockOpen' = connClose(c)
    /\ peerOpen' = [peerOpen EXCEPT ![c] = @ /\ sockOpen'[c]]
    /\ pc' = [pc EXCEPT ![c] = "closed"]
    /\ stopped' = [stopped EXCEPT ![c] = FALSE]
    /\ unread' = [unread EXCEPT ![c] = 0]
    /\ UNCHANGED << regVars, req, nReq >>
    /\ UNCHANGED << sessVars, loopVars, exitsTo >>
    /\ UNCHANGED << srv, outsideDaemon >>

\* a handler's WriteMessage of its reply returns (the frame is on the wire, or
\* the write failed because the client's end is closed) and the handler returns
WriteReply(c) ==
    /\ pc[c] \in {"write", "writeLocked"}
    /\ ~Blocked(c)
    /\ unread' = Wrote(c)
    /\ req' = [req EXCEPT ![c] = NoReq]
    /\ pc' = [pc EXCEPT ![c] = "read"]
    /\ UNCHANGED << regVars, sockOpen, peerOpen, stopped, nReq >>
    /\ UNCHANGED << sessVars, loopVars, exitsTo >>
    /\ UNCHANGED << srv, outsideDaemon >>

\* ------------------------------------------------------------------ handlers
\* handleCreate, the id is registered: the caller's clientConn.sessionID
createExisting(c, id) == [clients EXCEPT ![c] = id]

\* a handleCreate that registers the session before it starts it
createFailed_Registers(id) == MapPut(sessions, id, nSpawn + 1)

\* handleCreate, session.Start failed: the registry the handler leaves
createFailed(id) == sessions

\* handleCreate, session.Start succeeded: the registry the handler leaves
createInsert(id, o) == MapPut(sessions, id, o)

\* handleCreate (sendError for an invalid request is written before the lock
\* is taken); startOK is the outcome of pty.Start. The session ids are named
\* in the order in which clients first ask to create them.
HandleCreate(c, id, sp, startOK) ==
    /\ Reads(c)
    /\ (id = "s2" /\ sp.command # "") => nSpawn > 0
    /\ nReq' = nReq + 1
    /\ IF id = "" \/ sp.command = ""
       THEN /\ Writes(c, "CREATE", id, Err(<<"invalid create request">>), FALSE)
            /\ UNCHANGED << regVars, sessVars, readPC, waitPC >>
       ELSE /\ ~muLocked
            /\ IF id \in DOMAIN sessions
               THEN /\ clients' = createExisting(c, id)
                    /\ Writes(c, "CREATE", id, OK, TRUE)
                    /\ UNCHANGED << sessions, sessVars, readPC, waitPC >>
               ELSE IF ~startOK
               THEN /\ sessions' = createFailed(id)
                    /\ Writes(c, "CREATE", id, Err(<<"pty.Start">>), TRUE)
                    /\ UNCHANGED << clients, sessVars, readPC, waitPC >>
               ELSE /\ nSpawn < Cardinality(Objs)
                    /\ LET o == nSpawn + 1 IN
                       /\ nSpawn' = o
                       /\ objID' = [objID EXCEPT ![o] = id]
                       /\ objSpec' = [objSpec EXCEPT ![o] = sp]
                       /\ running' = [running EXCEPT ![o] = TRUE]
                       /\ sessions' = createInsert(id, o)
                       /\ clients' = [clients EXCEPT ![c] = id]
                       /\ readPC' = [readPC EXCEPT ![o] = "read"]
                       /\ waitPC' = [waitPC EXCEPT ![o] = "wait"]
                    /\ Writes(c, "CREATE", id, OK, TRUE)
                    /\ UNCHANGED << winsize, ptyIn >>
    /\ UNCHANGED << sockOpen, peerOpen, stopped, unread >>
    /\ UNCHANGED << chunks, readConns, waitConns, exitsTo >>
    /\ UNCHANGED << srv, outsideDaemon >>

\* handleAttach: the reply it writes
attachReply(id) ==
    IF id = "" THEN Err(<<"empty session ID">>)
    ELSE IF id \notin DOMAIN sessions THEN Err(<<"session not found: ", id>>)
    ELSE IF ~running[sessions[id]] THEN Err(<<"session not running: ", id>>)
    ELSE OK

\* a handleAttach that binds the connection before it looks the session up
attachClients_BindsFirst(c, id) ==
    IF id = "" THEN clients ELSE [clients EXCEPT ![c] = id]

\* handleAttach: Server.clients as it leaves it
attachClients(c, id) ==
    IF attachReply(id) = OK THEN [clients EXCEPT ![c] = id] ELSE clients

\* handleAttach (sendError for an empty id is written before the lock is taken)
HandleAttach(c, id) ==
    /\ Reads(c)
    /\ id # "" => ~muLocked
    /\ nReq' = nReq + 1
    /\ clients' = attachClients(c, id)
    /\ Writes(c, "ATTACH", id, attachReply(id), id # "")
    /\ UNCHANGED << sessions, sockOpen, peerOpen, stopped, unread >>
    /\ UNCHANGED << sessVars, loopVars, exitsTo >>
    /\ UNCHANGED << srv, outsideDaemon >>

\* handleDetach
HandleDetach(c) ==
    /\ Reads(c)
    /\ ~muLocked
    /\ nReq' = nReq + 1
    /\ clients' = [clients EXCEPT ![c] = ""]
    /\ UNCHANGED << sessions, connVars, unread >>
    /\ UNCHANGED << sessVars, loopVars, exitsTo >>
    /\ UNCHANGED << srv, outsideDaemon >>

\* the session a connection's clientConn.sessionID names in the registry, or nil
sessionOf(c) ==
    IF clients[c] # "" /\ clients[c] \in DOMAIN sessions
    THEN sessions[clients[c]] ELSE NoObj

\* handleData: the payload reaches Session.Write
dataWrites(c) == sessionOf(c) # NoObj /\ running[sessionOf(c)]

\* handleData
HandleData(c) ==
    /\ Reads(c)
    /\ ~muLocked
    /\ nReq' = nReq + 1
    /\ ptyIn' = IF dataWrites(c)
                THEN [ptyIn EXCEPT ![sessionOf(c)] = @ + 1] ELSE ptyIn
    /\ UNCHANGED << regVars, connVars, unread >>
    /\ UNCHANGED << objID, objSpec, running, winsize, nSpawn >>
    /\ UNCHANGED << loopVars, exitsTo >>
    /\ UNCHANGED << srv, outsideDaemon >>

\* Session.Resize: pty.Setsize is called unless ptmx is nil, and ptmx is set
\* by Start and never reset
resizeSets(o) == o # NoObj

\* handleResize; `size` is ShortSize for a payload DecodeResize rejects
HandleResize(c, size) ==
    /\ Reads(c)
    /\ size # ShortSize => ~muLocked
    /\ nReq' = nReq + 1
    /\ winsize' = IF size # ShortSize /\ resizeSets(sessionOf(c))
                  THEN [winsize EXCEPT ![sessionOf(c)] = size] ELSE winsize
    /\ UNCHANGED << regVars, connVars, unread >>
    /\ UNCHANGED << objID, objSpec, running, ptyIn, nSpawn >>
    /\ UNCHANGED << loopVars, exitsTo >>
    /\ UNCHANGED << srv, outsideDaemon >>

\* a handleList that lists the registry as Server.ListSessions does
listRunning_AllRegistered == DOMAIN sessions

\* handleList: the ids of the registered sessions that report Running
listRunning == { id \in DOMAIN sessions : running[sessions[id]] }

\* handleList: the reply, its ids in an order a range over Server.sessions
\* can yield (they are joined with NUL bytes)
ListResponse(ids) == [type |-> "LIST_RESPONSE", data |-> ids]

\* handleList (the reply is written after the read lock is released)
HandleList(c) ==
    /\ Reads(c)
    /\ ~muLocked
    /\ nReq' = nReq + 1
    /\ \E ids \in Perms(listRunning) : Writes(c, "LIST", "", ListResponse(ids), FALSE)
    /\ UNCHANGED << regVars, sockOpen, peerOpen, stopped, unread >>
    /\ UNCHANGED << sessVars, loopVars, exitsTo >>
    /\ UNCHANGED << srv, outsideDaemon >>

\* ------------------------------------------------------------------ sessions
\* broadcastToSession, first half: the conns attached to sessionID, collected
\* under the read lock, in every order a range over Server.clients can yield
broadcastConns(sessionID) ==
    Perms({ c \in DOMAIN clients : clients[c] = sessionID })

\* chunks read so far by all the session readers
RECURSIVE Sum(_, _)
Sum(f, S) == IF S = {} THEN 0
             ELSE LET x == CHOOSE y \in S : TRUE IN f[x] + Sum(f, S \ {x})

\* sessionReadLoop: Session.Read returns a chunk of the child's output, and
\* broadcastToSession collects the conns to write it to. (The PTY holds the
\* child's last output after the child is gone, so the reader may still read
\* a chunk after Session.Wait returned; once Session.Close closed the PTY
\* master, Read fails.)
ReadChunk(o) ==
    /\ readPC[o] = "read"
    /\ o \notin srv.closed
    /\ Sum(chunks, Objs) < MaxChunks
    /\ ~muLocked
    /\ chunks' = [chunks EXCEPT ![o] = @ + 1]
    /\ \E conns \in broadcastConns(objID[o]) :
         /\ readConns' = [readConns EXCEPT ![o] = conns]
         /\ readPC' = [readPC EXCEPT ![o] = IF conns = <<>> THEN "read" ELSE "send"]
    /\ UNCHANGED << regVars, connVars, unread, nReq >>
    /\ UNCHANGED << sessVars, waitPC, waitConns, exitsTo >>
    /\ UNCHANGED << srv, outsideDaemon >>

\* broadcastToSession, second half, one iteration: WriteMessage(conn, DATA)
ReadSend(o) ==
    /\ readPC[o] = "send"
    /\ LET c == Head(readConns[o]) IN
       /\ ~Blocked(c)
       /\ unread' = Wrote(c)
    /\ readConns' = [readConns EXCEPT ![o] = Tail(@)]
    /\ readPC' = [readPC EXCEPT ![o] =
                    IF Tail(readConns[o]) = <<>> THEN "read" ELSE "send"]
    /\ UNCHANGED << regVars, connVars, nReq >>
    /\ UNCHANGED << sessVars, chunks, waitPC, waitConns, exitsTo >>
    /\ UNCHANGED << srv, outsideDaemon >>

\* sessions whose child has exited
Exited == { o \in Objs : waitPC[o] \notin {"none", "wait"} }

\* sessionWaitLoop: the child exits and Session.Wait returns, with running set
\* to false
WaitReturns(o) ==
    /\ waitPC[o] = "wait"
    /\ Cardinality(Exited) < MaxExits
    /\ running' = [running EXCEPT ![o] = FALSE]
    /\ waitPC' = [waitPC EXCEPT ![o] = "exited"]
    /\ UNCHANGED << regVars, connVars, unread, nReq >>
    /\ UNCHANGED << objID, objSpec, winsize, ptyIn, nSpawn >>
    /\ UNCHANGED << chunks, readPC, readConns, waitConns, exitsTo >>
    /\ UNCHANGED << srv, outsideDaemon >>

\* sessionWaitLoop: broadcastToSession collects the conns to write EXIT to
WaitCollect(o) ==
    /\ waitPC[o] = "exited"
    /\ ~muLocked
    /\ \E conns \in broadcastConns(objID[o]) :
         /\ waitConns' = [waitConns EXCEPT ![o] = conns]
         /\ waitPC' = [waitPC EXCEPT ![o] = IF conns = <<>> THEN "delete" ELSE "send"]
    /\ UNCHANGED << regVars, connVars, unread, nReq >>
    /\ UNCHANGED << sessVars, chunks, readPC, readConns, exitsTo >>
    /\ UNCHANGED << srv, outsideDaemon >>

\* broadcastToSession, second half, one iteration: WriteMessage(conn, EXIT)
WaitSend(o) ==
    /\ waitPC[o] = "send"
    /\ LET c == Head(waitConns[o]) IN
       /\ ~Blocked(c)
       /\ exitsTo' = IF Delivers(c)
                     THEN [exitsTo EXCEPT ![c][o] = @ + 1] ELSE exitsTo
       /\ unread' = Wrote(c)
    /\ waitConns' = [waitConns EXCEPT ![o] = Tail(@)]
    /\ waitPC' = [waitPC EXCEPT ![o] =
                    IF Tail(waitConns[o]) = <<>> THEN "delete" ELSE "send"]
    /\ UNCHANGED << regVars, connVars, nReq >>
    /\ UNCHANGED << sessVars, chunks, readPC, readConns >>
    /\ UNCHANGED << srv, outsideDaemon >>

\* sessionWaitLoop: delete(s.sessions, session.ID)
WaitDelete(o) ==
    /\ waitPC[o] = "delete"
    /\ ~muLocked
    /\ sessions' = MapDel(sessions, objID[o])
    /\ waitPC' = [waitPC EXCEPT ![o] = "done"]
    /\ UNCHANGED << clients, connVars, unread, nReq >>
    /\ UNCHANGED << sessVars, chunks, readPC, readConns, waitConns, exitsTo >>
    /\ UNCHANGED << srv, outsideDaemon >>

\* ------------------------------------------------------------------ Next
Next ==
    \/ \E c \in Conns : Accept(c)
    \/ \E c \in Conns : ClientClose(c)
    \/ \E c \in Conns, err \in {"EOF", "message too large"} : ReadError(c, err)
    \/ \E c \in Conns : ConnClose(c)
    \/ \E c \in Conns : WriteReply(c)
    \/ \E c \in Conns, id \in IDs \cup {""}, ok \in BOOLEAN :
          \E sp \in CreateSpecs(c) : HandleCreate(c, id, sp, ok)
    \/ \E c \in Conns, id \in IDs \cup {""} : HandleAttach(c, id)
    \/ \E c \in Conns : HandleDetach(c)
    \/ \E c \in Conns : HandleData(c)
    \/ \E c \in Conns, size \in Sizes \cup {ShortSize} : HandleResize(c, size)
    \/ \E c \in Conns : HandleList(c)
    \/ \E o \in Objs : ReadChunk(o)
    \/ \E o \in Objs : ReadSend(o)
    \/ \E o \in Objs : WaitReturns(o)
    \/ \E o \in Objs : WaitCollect(o)
    \/ \E o \in Objs : WaitSend(o)
    \/ \E o \in Objs : WaitDelete(o)

Spec == Init /\ [][Next]_vars

\* handleClient: ReadMessage returns a frame whose type is none of the cases
\* of the switch, which has no default: nothing is done and the loop reads the
\* next frame (req keeps the frame as the last one the handler dropped)
HandleUnknown(c) ==
    /\ Reads(c)
    /\ nReq' = nReq + 1
    /\ req' = [req EXCEPT ![c] = [NoReq EXCEPT !.type = "UNKNOWN"]]
    /\ UNCHANGED << regVars, pc, sockOpen, peerOpen, stopped, unread >>
    /\ UNCHANGED << sessVars, loopVars, exitsTo >>
    /\ UNCHANGED << srv, outsideDaemon >>

\* the same daemon with clients that also send frames of an unknown type and
\* close in the middle of a frame
NextFrames ==
    \/ Next
    \/ \E c \in Conns : HandleUnknown(c)
    \/ \E c \in Conns : ReadError(c, "unexpected EOF")

SpecFrames == Init /\ [][NextFrames]_vars

\* the same daemon with a client that may stop reading
NextSlow ==
    \/ Next
    \/ \E c \in Conns : ClientStop(c)

SpecSlow == Init /\ [][NextSlow]_vars

\* ------------------------------------------------------------------ shutdown
\* the session objects in Server.sessions
Registered == { sessions[id] : id \in DOMAIN sessions }

\* daemonRunCmd's signal goroutine receives SIGINT or SIGTERM and calls
\* Server.Close, which closes the done channel
Signalled ==
    /\ srv.state = "serving"
    /\ srv' = [srv EXCEPT !.state = "closeSessions"]
    /\ UNCHANGED << daemonVars, outsideDaemon >>

\* Server.Close: under Server.mu, Session.Close of every registered session
\* (kill, close of the PTY master, running = false)
CloseSessions ==
    /\ srv.state = "closeSessions"
    /\ ~muLocked
    /\ running' = [o \in Objs |-> IF o \in Registered THEN FALSE ELSE running[o]]
    /\ srv' = [srv EXCEPT !.state = "closeListener", !.closed = Registered]
    /\ UNCHANGED << regVars, connVars, unread, nReq >>
    /\ UNCHANGED << objID, objSpec, winsize, ptyIn, nSpawn, loopVars, exitsTo >>
    /\ UNCHANGED outsideDaemon

\* Server.Close: listener.Close()
CloseListener ==
    /\ srv.state = "closeListener"
    /\ srv' = [srv EXCEPT !.state = "remove", !.listening = FALSE]
    /\ UNCHANGED << daemonVars, outsideDaemon >>

\* Server.Close: os.Remove(socketPath)
CloseRemove ==
    /\ srv.state = "remove"
    /\ srv' = [srv EXCEPT !.state = "exit", !.sockFile = FALSE]
    /\ UNCHANGED << daemonVars, outsideDaemon >>

\* daemonRunCmd's signal goroutine: os.Exit(0) ends every goroutine of the
\* process and closes its sockets
ProcessExit ==
    /\ srv.state = "exit"
    /\ srv' = [srv EXCEPT !.state = "exited"]
    /\ pc' = [c \in Conns |-> "gone"]
    /\ readPC' = [o \in Objs |-> "gone"]
    /\ waitPC' = [o \in Objs |-> "gone"]
    /\ sockOpen' = [c \in Conns |-> FALSE]
    /\ UNCHANGED << regVars, req, peerOpen, stopped, unread, nReq >>
    /\ UNCHANGED << sessVars, chunks, readConns, waitConns, exitsTo >>
    /\ UNCHANGED outsideDaemon

\* sessionWaitLoop: Session.Wait returns because Session.Close killed the
\* child
WaitKilled(o) ==
    /\ waitPC[o] = "wait"
    /\ o \in srv.closed
    /\ running' = [running EXCEPT ![o] = FALSE]
    /\ waitPC' = [waitPC EXCEPT ![o] = "exited"]
    /\ UNCHANGED << regVars, connVars, unread, nReq >>
    /\ UNCHANGED << objID, objSpec, winsize, ptyIn, nSpawn >>
    /\ UNCHANGED << chunks, readPC, readConns, waitConns, exitsTo >>
    /\ UNCHANGED << srv, outsideDaemon >>

\* the daemon with its signal goroutine
NextClose ==
    \/ Next
    \/ Signalled
    \/ CloseSessions
    \/ CloseListener
    \/ CloseRemove
    \/ ProcessExit
    \/ \E o \in Objs : WaitKilled(o)

SpecClose == Init /\ [][NextClose]_vars

\* ------------------------------------------------------------------ wire
\* message types of the daemon protocol
MsgData      == 1
MsgResize    == 2
MsgExit      == 3
MsgAttach    == 16
MsgCreate    == 17
MsgSessionOK == 18
MsgSessionError == 19
MsgDetach    == 20
MsgList      == 21
MsgListResponse == 22
MsgTypes == {MsgData, MsgResize, MsgExit, MsgAttach, MsgCreate, MsgSessionOK,
             MsgSessionError, MsgDetach, MsgList, MsgListResponse}

\* ReadMessage: the largest length field it accepts (1 << 20)
MaxMessageLen == 1048576

\* chunks Session.Read returns
WireChunks == { <<104>>, <<104, 105>> }

\* binary.Write(w, binary.BigEndian, uint32(n)): the four bytes written
BE32(n) == << (n \div 16777216) % 256, (n \div 65536) % 256, (n \div 256) % 256, n % 256 >>

\* binary.Read(r, binary.BigEndian, &length): the uint32 four bytes stand for
U32(b) == b[1] * 16777216 + b[2] * 65536 + b[3] * 256 + b[4]

\* WriteMessage: the byte slices of its successive Write calls (type, length,
\* and the payload unless it is empty)
WriteCalls(msg) ==
    << << msg.type >>, BE32(Len(msg.data)) >>
       \o (IF Len(msg.data) > 0 THEN << msg.data >> ELSE << >>)

\* ReadMessage: a length field it refuses (length > 1<<20)
tooLarge_AtLimit(length) == length >= MaxMessageLen

\* ReadMessage: a length field it refuses (length > 1<<20)
tooLarge(length) == length > MaxMessageLen

\* the client's successive ReadMessage calls on the bytes b: the messages they
\* return and the error, if any, that ends them ("short": the frame is not
\* all there)
RECURSIVE ReadMessages(_)
ReadMessages(b) ==
    IF b = << >> THEN [msgs |-> << >>, err |-> ""]
    ELSE IF Len(b) < 5 THEN [msgs |-> << >>, err |-> "short"]
    ELSE LET length == U32(SubSeq(b, 2, 5)) IN
         IF tooLarge(length) THEN [msgs |-> << >>, err |-> "message too large"]
         ELSE IF Len(b) < 5 + length THEN [msgs |-> << >>, err |-> "short"]
         ELSE LET rest == ReadMessages(SubSeq(b, 6 + length, Len(b))) IN
              [msgs |-> << [type |-> b[1], data |-> SubSeq(b, 6, 5 + length)] >> \o rest.msgs,
               err |-> rest.err]

\* a goroutine enters WriteMessage(conn, msg)
wireBegin(w, msg) == [wire.todo EXCEPT ![w] = WriteCalls(msg)]

\* sessionReadLoop: Session.Read returns the chunk p and broadcastToSession
\* calls WriteMessage(conn, DATA) for the connection
WireRead(p) ==
    /\ wire.todo["reader"] = << >>
    /\ Len(wire.read) < MaxWireChunks
    /\ wire' = [wire EXCEPT !.read = Append(@, p),
                            !.todo = wireBegin("reader", [type |-> MsgData, data |-> p])]
    /\ UNCHANGED << daemonVars, srv, ws, inst, pidf, session, pane, codec, env, board, term, agent, tui >>

\* sessionWaitLoop: Session.Wait returns and broadcastToSession calls
\* WriteMessage(conn, EXIT) for the connection
WireExit ==
    /\ ~wire.exited
    /\ wire' = [wire EXCEPT !.exited = TRUE,
                            !.todo = wireBegin("waiter", [type |-> MsgExit, data |-> << >>])]
    /\ UNCHANGED << daemonVars, srv, ws, inst, pidf, session, pane, codec, env, board, term, agent, tui >>

\* handleAttach: the connection's handler calls WriteMessage(conn, SESSION_OK)
WireReply ==
    /\ wire.todo["handler"] = << >>
    /\ wire.replies < MaxWireReplies
    /\ wire' = [wire EXCEPT !.replies = @ + 1,
                            !.todo = wireBegin("handler", [type |-> MsgSessionOK, data |-> << >>])]
    /\ UNCHANGED << daemonVars, srv, ws, inst, pidf, session, pane, codec, env, board, term, agent, tui >>

\* WriteMessage: the next Write call of goroutine w puts its bytes on the
\* connection
WireWrite(w) ==
    /\ wire.todo[w] # << >>
    /\ wire' = [wire EXCEPT !.stream = @ \o Head(wire.todo[w]),
                            !.todo[w] = Tail(@)]
    /\ UNCHANGED << daemonVars, srv, ws, inst, pidf, session, pane, codec, env, board, term, agent, tui >>

NextWire ==
    \/ \E p \in WireChunks : WireRead(p)
    \/ WireExit
    \/ WireReply
    \/ \E w \in Writers : WireWrite(w)

SpecWire == Init /\ [][NextWire]_vars

\* ------------------------------------------------------------------ WebSocket front end
\* handleWsOpen
handleWsOpen(w) ==
    /\ w \notin ws.clients
    /\ ws' = [ws EXCEPT !.clients = @ \cup {w}, !.subscribed[w] = {}]
    /\ UNCHANGED << daemonVars, srv, wire, inst, pidf, session, pane, codec, env, board, term, agent, tui >>

\* handleWsClose: ptyManager.unsubscribe for each subscribed terminal, then
\* clients.delete
handleWsClose(w) ==
    /\ w \in ws.clients
    /\ ws' = [ws EXCEPT !.clients = @ \ {w},
                        !.subscribers = [t \in Terms |->
                            IF t \in ws.subscribed[w] /\ t \in ws.sessions
                            THEN @[t] \ {w} ELSE @[t]]]
    /\ UNCHANGED << daemonVars, srv, wire, inst, pidf, session, pane, codec, env, board, term, agent, tui >>

\* handleTerminalSubscribe: the connection's subscribedTerminals after it
subscribeTerminals(w, t) == ws.subscribed[w] \cup {t}

\* handleTerminalSubscribe (ptyManager.subscribe adds the connection to the
\* session's subscribers when the session exists)
handleTerminalSubscribe(w, t) ==
    /\ w \in ws.clients
    /\ ws' = [ws EXCEPT !.subscribed[w] = subscribeTerminals(w, t),
                        !.subscribers[t] = IF t \in ws.sessions THEN @ \cup {w} ELSE @]
    /\ UNCHANGED << daemonVars, srv, wire, inst, pidf, session, pane, codec, env, board, term, agent, tui >>

\* handleTerminalUnsubscribe
handleTerminalUnsubscribe(w, t) ==
    /\ w \in ws.clients
    /\ ws' = [ws EXCEPT !.subscribed[w] = @ \ {t},
                        !.subscribers[t] = IF t \in ws.sessions THEN @ \ {w} ELSE @]
    /\ UNCHANGED << daemonVars, srv, wire, inst, pidf, session, pane, codec, env, board, term, agent, tui >>

\* PtyManager.spawn: a session under a fresh id (crypto.randomUUID), with no
\* subscriber
ptySpawn(t) ==
    /\ t \notin ws.used
    /\ ws' = [ws EXCEPT !.sessions = @ \cup {t}, !.used = @ \cup {t},
                        !.subscribers[t] = {}]
    /\ UNCHANGED << daemonVars, srv, wire, inst, pidf, session, pane, codec, env, board, term, agent, tui >>

\* PtyManager.streamOutput: a chunk of a session's output goes through
\* broadcastTerminalOutput to every client whose subscribedTerminals has the id
broadcastTerminalOutput(t) ==
    /\ t \in ws.sessions
    /\ ws.outputs < MaxWsOutputs
    /\ ws' = [ws EXCEPT !.outputs = @ + 1,
                        !.sentTo = [w \in Ws |->
                            IF w \in ws.clients /\ t \in ws.subscribed[w]
                            THEN @[w] \cup {t} ELSE @[w]]]
    /\ UNCHANGED << daemonVars, srv, wire, inst, pidf, session, pane, codec, env, board, term, agent, tui >>

\* PtyManager.spawn, proc.exited: broadcastTerminalExit, then sessions.delete
ptyExited(t) ==
    /\ t \in ws.sessions
    /\ ws' = [ws EXCEPT !.sessions = @ \ {t}]
    /\ UNCHANGED << daemonVars, srv, wire, inst, pidf, session, pane, codec, env, board, term, agent, tui >>

NextWs ==
    \/ \E w \in Ws : handleWsOpen(w)
    \/ \E w \in Ws : handleWsClose(w)
    \/ \E w \in Ws, t \in Terms : handleTerminalSubscribe(w, t)
    \/ \E w \in Ws, t \in Terms : handleTerminalUnsubscribe(w, t)
    \/ \E t \in Terms : ptySpawn(t)
    \/ \E t \in Terms : broadcastTerminalOutput(t)
    \/ \E t \in Terms : ptyExited(t)

SpecWs == Init /\ [][NextWs]_vars

\* ------------------------------------------------------------------ daemon start
\* no daemon runs; the socket path is free or holds the file a dead daemon left
InitStart == IdleExcept("inst") /\ \E f \in {"none", "stale"} : inst = instStart(f)

\* Client.Connect on the socket path succeeds: the file is the socket of a
\* daemon that listens
Answers == inst.sockFile \in Daemons /\ inst.d[inst.sockFile] = "listening"

\* Server.Start, os.Remove(s.socketPath): the socket path after it
startRemove(d) == "none"

\* `daemon run` is invoked by a user or a service manager
DaemonRun(d) ==
    /\ inst.d[d] = "off"
    /\ \A l \in Launchers : Spawned(l) = d => inst.l[l] = "off"
    /\ inst' = [inst EXCEPT !.d[d] = "start"]
    /\ UNCHANGED << daemonVars, srv, wire, ws, pidf, session, pane, codec, env, board, term, agent, tui >>

\* Server.Start, first half: MkdirAll and os.Remove(s.socketPath)
StartRemove(d) ==
    /\ inst.d[d] = "start"
    /\ inst' = [inst EXCEPT !.d[d] = "listen", !.sockFile = startRemove(d)]
    /\ UNCHANGED << daemonVars, srv, wire, ws, pidf, session, pane, codec, env, board, term, agent, tui >>

\* Server.Start, second half: net.Listen("unix", s.socketPath) creates the
\* socket file, or fails because the path exists
StartListen(d) ==
    /\ inst.d[d] = "listen"
    /\ inst' = IF inst.sockFile = "none"
               THEN [inst EXCEPT !.d[d] = "listening", !.sockFile = d]
               ELSE [inst EXCEPT !.d[d] = "failed"]
    /\ UNCHANGED << daemonVars, srv, wire, ws, pidf, session, pane, codec, env, board, term, agent, tui >>

\* the daemon is killed: its socket file stays behind
DaemonKilled(d) ==
    /\ inst.d[d] = "listening"
    /\ inst' = [inst EXCEPT !.d[d] = "dead"]
    /\ UNCHANGED << daemonVars, srv, wire, ws, pidf, session, pane, codec, env, board, term, agent, tui >>

\* EnsureDaemon, os.Stat and the connect probe: a daemon answers (return nil),
\* or the file is there and nothing answers (go on to os.Remove), or there is
\* no file (go on to start a daemon)
EnsureProbe(l) ==
    /\ inst.l[l] = "off"
    /\ inst.d[Spawned(l)] = "off"
    /\ inst' = [inst EXCEPT !.l[l] = IF inst.sockFile = "none" THEN "spawn"
                                     ELSE IF Answers THEN "done" ELSE "remove"]
    /\ UNCHANGED << daemonVars, srv, wire, ws, pidf, session, pane, codec, env, board, term, agent, tui >>

\* EnsureDaemon, os.Remove(sockPath) after the failed probe
EnsureRemove(l) ==
    /\ inst.l[l] = "remove"
    /\ inst' = [inst EXCEPT !.l[l] = "spawn", !.sockFile = "none"]
    /\ UNCHANGED << daemonVars, srv, wire, ws, pidf, session, pane, codec, env, board, term, agent, tui >>

\* EnsureDaemon, cmd.Start of `daemon run`
EnsureSpawn(l) ==
    /\ inst.l[l] = "spawn"
    /\ inst' = [inst EXCEPT !.l[l] = "wait", !.d[Spawned(l)] = "start"]
    /\ UNCHANGED << daemonVars, srv, wire, ws, pidf, session, pane, codec, env, board, term, agent, tui >>

NextStart ==
    \/ \E d \in Daemons : DaemonRun(d)
    \/ \E d \in Daemons : StartRemove(d)
    \/ \E d \in Daemons : StartListen(d)
    \/ \E d \in Daemons : DaemonKilled(d)
    \/ \E l \in Launchers : EnsureProbe(l)
    \/ \E l \in Launchers : EnsureRemove(l)
    \/ \E l \in Launchers : EnsureSpawn(l)

SpecStart == InitStart /\ [][NextStart]_vars

\* ------------------------------------------------------------------ HTTP daemon start
\* no process has started; the PID file is absent, unreadable as a number, or
\* holds the pid of a process that is gone
InitPid == IdleExcept("pidf") /\ \E f \in {"none", "garbage", "p0"} : pidf = pidfStart(f)

\* the process x is alive: it started and has not failed
Alive(x) == x \in Procs /\ pidf.pc[x] \notin {"off", "failed"}

\* Daemon.getRunningPid: the number in the PID file, or null
getRunningPid == IF pidf.file \in {"none", "garbage"} THEN NoPid ELSE pidf.file

\* Daemon.start rejects with the error e
startFails(x, e) == [pidf EXCEPT !.pc[x] = "failed", !.err[x] = e]

\* Daemon.start up to fs.existsSync(PID_FILE) in isAlreadyRunning
StartExists(x) ==
    /\ pidf.pc[x] = "off"
    /\ pidf' = [pidf EXCEPT !.pc[x] = IF pidf.file = "none" THEN "write" ELSE "read"]
    /\ UNCHANGED << daemonVars, srv, wire, ws, inst, session, pane, codec, env, board, term, agent, tui >>

\* isAlreadyRunning: getRunningPid reads the PID file
StartRead(x) ==
    /\ pidf.pc[x] = "read"
    /\ pidf' = [pidf EXCEPT !.pid[x] = getRunningPid,
                            !.pc[x] = IF getRunningPid = NoPid THEN "unlink" ELSE "kill"]
    /\ UNCHANGED << daemonVars, srv, wire, ws, inst, session, pane, codec, env, board, term, agent, tui >>

\* isAlreadyRunning: process.kill(pid, 0); when the process is there start
\* throws "Daemon already running"
StartKill(x) ==
    /\ pidf.pc[x] = "kill"
    /\ pidf' = IF Alive(pidf.pid[x]) THEN startFails(x, "already running")
               ELSE [pidf EXCEPT !.pc[x] = "unlink"]
    /\ UNCHANGED << daemonVars, srv, wire, ws, inst, session, pane, codec, env, board, term, agent, tui >>

\* isAlreadyRunning: fs.unlinkSync(PID_FILE), which throws when the file is
\* gone
StartUnlink(x) ==
    /\ pidf.pc[x] = "unlink"
    /\ pidf' = IF pidf.file = "none" THEN startFails(x, "ENOENT")
               ELSE [pidf EXCEPT !.pc[x] = "write", !.file = "none"]
    /\ UNCHANGED << daemonVars, srv, wire, ws, inst, session, pane, codec, env, board, term, agent, tui >>

\* Daemon.start: fs.writeFileSync(PID_FILE, process.pid.toString())
StartWrite(x) ==
    /\ pidf.pc[x] = "write"
    /\ pidf' = [pidf EXCEPT !.pc[x] = "serve", !.file = x]
    /\ UNCHANGED << daemonVars, srv, wire, ws, inst, session, pane, codec, env, board, term, agent, tui >>

\* Daemon.start: Bun.serve({ port }) binds the port, or throws when the port
\* is taken
StartServe(x) ==
    /\ pidf.pc[x] = "serve"
    /\ pidf' = IF pidf.port = "free"
               THEN [pidf EXCEPT !.pc[x] = "serving", !.port = x]
               ELSE startFails(x, "EADDRINUSE")
    /\ UNCHANGED << daemonVars, srv, wire, ws, inst, session, pane, codec, env, board, term, agent, tui >>

NextPid ==
    \/ \E x \in Procs : StartExists(x)
    \/ \E x \in Procs : StartRead(x)
    \/ \E x \in Procs : StartKill(x)
    \/ \E x \in Procs : StartUnlink(x)
    \/ \E x \in Procs : StartWrite(x)
    \/ \E x \in Procs : StartServe(x)

SpecPid == InitPid /\ [][NextPid]_vars

\* ------------------------------------------------------------------ Session methods
\* a method of the session is called and returns ret; pty tells whether it
\* performed an operation on the open PTY master
Called(s, op, ret, pty) ==
    [s EXCEPT !.op = op, !.ret = ret, !.calls = @ + 1,
              !.ptyOps = IF pty THEN @ + 1 ELSE @]

\* Session.Start; ok tells whether the spawn succeeds. exec.Cmd starts once
\* only: pty.Start on a command that was started fails
SessionStart(ok) ==
    /\ session.calls < MaxCalls
    /\ session' =
         IF session.running THEN Called(session, "start", "session already running", FALSE)
         ELSE IF session.child # "none" \/ ~ok THEN Called(session, "start", "pty.Start", FALSE)
         ELSE Called([session EXCEPT !.running = TRUE, !.ptmx = "open", !.child = "alive"],
                     "start", "nil", TRUE)
    /\ UNCHANGED << daemonVars, srv, wire, ws, inst, pidf, pane, codec, env, board, term, agent, tui >>

\* the child process ends by itself
ChildExits ==
    /\ session.child = "alive"
    /\ session' = [session EXCEPT !.child = "dead"]
    /\ UNCHANGED << daemonVars, srv, wire, ws, inst, pidf, pane, codec, env, board, term, agent, tui >>

\* Session.Wait: cmd.Wait returns once the child is gone, then running = false
SessionWait ==
    /\ session.child = "dead"
    /\ session' = [session EXCEPT !.child = "reaped", !.running = FALSE, !.op = "wait"]
    /\ UNCHANGED << daemonVars, srv, wire, ws, inst, pidf, pane, codec, env, board, term, agent, tui >>

\* Session.Write: s.ptmx.Write(data), whatever running is. A nil *os.File
\* returns ErrInvalid, a closed one ErrClosed; an open master is written to,
\* and the write may fail with EIO once the child is gone
SessionWrite(eio) ==
    /\ session.calls < MaxCalls
    /\ eio => session.child # "alive"
    /\ session' =
         IF session.ptmx = "nil" THEN Called(session, "write", "invalid argument", FALSE)
         ELSE IF session.ptmx = "closed" THEN Called(session, "write", "file already closed", FALSE)
         ELSE Called(session, "write", IF eio THEN "EIO" ELSE "nil", TRUE)
    /\ UNCHANGED << daemonVars, srv, wire, ws, inst, pidf, pane, codec, env, board, term, agent, tui >>

\* Session.Resize: "session not running" when ptmx is nil, else pty.Setsize,
\* whatever running is; the ioctl on a closed master fails
SessionResize ==
    /\ session.calls < MaxCalls
    /\ session' =
         IF session.ptmx = "nil" THEN Called(session, "resize", "session not running", FALSE)
         ELSE IF session.ptmx = "closed" THEN Called(session, "resize", "file already closed", FALSE)
         ELSE Called(session, "resize", "nil", TRUE)
    /\ UNCHANGED << daemonVars, srv, wire, ws, inst, pidf, pane, codec, env, board, term, agent, tui >>

\* Session.Close: kill the process if there is one, close the master if there
\* is one, running = false
SessionClose ==
    /\ session.calls < MaxCalls
    /\ session' =
         Called([session EXCEPT !.running = FALSE,
                                !.child = IF @ = "alive" THEN "dead" ELSE @,
                                !.ptmx = IF @ = "open" THEN "closed" ELSE @],
                "close", "nil", session.ptmx = "open")
    /\ UNCHANGED << daemonVars, srv, wire, ws, inst, pidf, pane, codec, env, board, term, agent, tui >>

NextSession ==
    \/ \E ok \in BOOLEAN : SessionStart(ok)
    \/ ChildExits
    \/ SessionWait
    \/ \E eio \in BOOLEAN : SessionWrite(eio)
    \/ SessionResize
    \/ SessionClose

SpecSession == Init /\ [][NextSession]_vars

\* ------------------------------------------------------------------ Pane stop
\* Pane.Start on a pane that is not running; ok tells whether pty.Start
\* succeeds. Each start builds a new exec.Cmd
PaneStart(ok) ==
    /\ pane.pc = "idle" /\ ~pane.running
    /\ pane.starts < MaxStarts
    /\ pane' = IF ok
               THEN [pane EXCEPT !.running = TRUE, !.pty = "open", !.child = "alive",
                                 !.waiting = FALSE, !.done = FALSE, !.timer = FALSE,
                                 !.sigs = <<>>, !.starts = @ + 1]
               ELSE [pane EXCEPT !.starts = @ + 1]
    /\ UNCHANGED << daemonVars, srv, wire, ws, inst, pidf, session, codec, env, board, term, agent, tui >>

\* the child process ends, by itself or on the interrupt it was sent
PaneChildExits ==
    /\ pane.child = "alive"
    /\ pane' = [pane EXCEPT !.child = "exited"]
    /\ UNCHANGED << daemonVars, srv, wire, ws, inst, pidf, session, codec, env, board, term, agent, tui >>

\* Pane.Update(ExitMsg): the read of the PTY failed after the child ended;
\* running = false and the PTY is closed
UpdateExit ==
    /\ pane.child = "exited" /\ pane.running /\ pane.pty = "open"
    /\ pane' = [pane EXCEPT !.running = FALSE, !.pty = "closed"]
    /\ UNCHANGED << daemonVars, srv, wire, ws, inst, pidf, session, codec, env, board, term, agent, tui >>

\* Pane.Stop, as Pane.StopGraceful calls it: Process.Kill, which signals
\* nothing once the process was waited for; pty.Close; running = false
paneStop(p) ==
    [p EXCEPT !.sigs = IF p.done THEN @ ELSE Append(@, "KILL"),
              !.child = IF @ = "alive" THEN "exited" ELSE @,
              !.pty = IF @ = "open" THEN "closed" ELSE @,
              !.running = FALSE, !.pc = "idle"]

\* Pane.StopGraceful: nothing to do when the pane is not running
StopGraceful ==
    /\ pane.pc = "idle"
    /\ pane.stops < MaxStarts
    /\ pane' = IF ~pane.running \/ pane.child = "none"
               THEN [pane EXCEPT !.stops = @ + 1]
               ELSE [pane EXCEPT !.stops = @ + 1, !.pc = "signal"]
    /\ UNCHANGED << daemonVars, srv, wire, ws, inst, pidf, session, codec, env, board, term, agent, tui >>

\* Pane.StopGraceful: proc.Signal(os.Interrupt), which fails only for a
\* process that was waited for, and then Pane.Stop; else the goroutine that
\* waits for the process starts
StopSignal ==
    /\ pane.pc = "signal"
    /\ pane' = IF pane.done THEN paneStop(pane)
               ELSE [pane EXCEPT !.sigs = Append(@, "INT"), !.waiting = TRUE, !.pc = "select"]
    /\ UNCHANGED << daemonVars, srv, wire, ws, inst, pidf, session, codec, env, board, term, agent, tui >>

\* the goroutine of Pane.StopGraceful: proc.Wait returns for a process that
\* ended, and done receives its result
StopWaited ==
    /\ pane.waiting /\ ~pane.done
    /\ pane.child = "exited"
    /\ pane' = [pane EXCEPT !.done = TRUE]
    /\ UNCHANGED << daemonVars, srv, wire, ws, inst, pidf, session, codec, env, board, term, agent, tui >>

\* time.After(timeout) fires
StopTimerFires ==
    /\ pane.pc = "select" /\ ~pane.timer
    /\ pane' = [pane EXCEPT !.timer = TRUE]
    /\ UNCHANGED << daemonVars, srv, wire, ws, inst, pidf, session, codec, env, board, term, agent, tui >>

\* Pane.StopGraceful: select takes case <-done
StopSelectDone ==
    /\ pane.pc = "select" /\ pane.done
    /\ pane' = [pane EXCEPT !.pc = "close"]
    /\ UNCHANGED << daemonVars, srv, wire, ws, inst, pidf, session, codec, env, board, term, agent, tui >>

\* the signals sent once select took the timeout: proc.Kill()
timeoutSignals_None(p) == p.sigs

\* the signals sent once select took the timeout: proc.Kill(), which signals
\* nothing once the process was waited for
timeoutSignals(p) == IF p.done THEN p.sigs ELSE Append(p.sigs, "KILL")

\* Pane.StopGraceful: select takes case <-time.After(timeout)
StopSelectTimeout ==
    /\ pane.pc = "select" /\ pane.timer
    /\ pane' = [pane EXCEPT !.sigs = timeoutSignals(pane),
                            !.child = IF timeoutSignals(pane) # pane.sigs THEN "exited" ELSE @,
                            !.pc = "close"]
    /\ UNCHANGED << daemonVars, srv, wire, ws, inst, pidf, session, codec, env, board, term, agent, tui >>

\* Pane.StopGraceful: pty.Close, running = false, return nil
StopClose ==
    /\ pane.pc = "close"
    /\ pane' = [pane EXCEPT !.pty = IF @ = "open" THEN "closed" ELSE @,
                            !.running = FALSE, !.pc = "idle"]
    /\ UNCHANGED << daemonVars, srv, wire, ws, inst, pidf, session, codec, env, board, term, agent, tui >>

NextPane ==
    \/ \E ok \in BOOLEAN : PaneStart(ok)
    \/ PaneChildExits
    \/ UpdateExit
    \/ StopGraceful
    \/ StopSignal
    \/ StopWaited
    \/ StopTimerFires
    \/ StopSelectDone
    \/ StopSelectTimeout
    \/ StopClose

SpecPane == Init /\ [][NextPane]_vars

\* ------------------------------------------------------------------ codec
\* len(data) of a byte string
RECURSIVE RunLen(_)
RunLen(rs) == IF rs = << >> THEN 0 ELSE Head(rs).n + RunLen(Tail(rs))

\* data[:n]
RECURSIVE Take(_, _)
Take(rs, n) ==
    IF n = 0 \/ rs = << >> THEN << >>
    ELSE IF Head(rs).n <= n THEN << Head(rs) >> \o Take(Tail(rs), n - Head(rs).n)
    ELSE << Run(Head(rs).b, n) >>

\* data[n:]
RECURSIVE Drop(_, _)
Drop(rs, n) ==
    IF rs = << >> THEN << >>
    ELSE IF n = 0 THEN rs
    ELSE IF Head(rs).n <= n THEN Drop(Tail(rs), n - Head(rs).n)
    ELSE << Run(Head(rs).b, Head(rs).n - n) >> \o Tail(rs)

\* the byte string a sequence of runs stands for, in one form: no empty run,
\* no two adjacent runs of the same byte
RECURSIVE Norm(_)
Norm(rs) ==
    IF rs = << >> THEN << >>
    ELSE IF Head(rs).n = 0 THEN Norm(Tail(rs))
    ELSE LET t == Norm(Tail(rs)) IN
         IF t # << >> /\ Head(t).b = Head(rs).b
         THEN << Run(Head(rs).b, Head(rs).n + Head(t).n) >> \o Tail(t)
         ELSE << Head(rs) >> \o t

\* the byte string of the bytes bs
Singles(bs) == [i \in 1..Len(bs) |-> Run(bs[i], 1)]

\* the bytes of a short byte string
RECURSIVE Expand(_)
Expand(rs) ==
    IF rs = << >> THEN << >>
    ELSE IF Head(rs).n = 0 THEN Expand(Tail(rs))
    ELSE << Head(rs).b >> \o Expand(<< Run(Head(rs).b, Head(rs).n - 1) >> \o Tail(rs))

\* WriteMessage: the bytes it writes for msg (type, uint32(len(Data)) in big
\* endian, Data); the payloads of the model are shorter than 2^32 bytes
WriteMessage(msg) ==
    Singles(<< msg.type >> \o BE32(RunLen(msg.data))) \o msg.data

\* ReadMessage on a reader that holds the bytes rs and then ends: the error
\* or the message, the bytes left in the reader, and the size of the buffer
\* it allocated for the payload
ReadMessage(rs) ==
    IF RunLen(rs) < 1 THEN [NoRead EXCEPT !.err = "read type"]
    ELSE LET type == Expand(Take(rs, 1))[1] IN
         IF RunLen(rs) < 5 THEN [NoRead EXCEPT !.err = "read length", !.type = type]
         ELSE LET length == U32(Expand(Take(Drop(rs, 1), 4)))
                  body   == Drop(rs, 5)
              IN IF tooLarge(length)
                 THEN [NoRead EXCEPT !.err = "message too large", !.type = type, !.rest = body]
                 ELSE IF length = 0
                 THEN [NoRead EXCEPT !.type = type, !.rest = body]
                 ELSE IF RunLen(body) < length
                 THEN [NoRead EXCEPT !.err = "read data", !.type = type, !.alloc = length]
                 ELSE [NoRead EXCEPT !.type = type, !.data = Take(body, length),
                                     !.rest = Drop(body, length), !.alloc = length]

\* n successive ReadMessage calls on one reader: the messages returned, the
\* first error, the bytes left
RECURSIVE ReadN(_, _)
ReadN(rs, n) ==
    IF n = 0 THEN [msgs |-> << >>, err |-> "", rest |-> rs]
    ELSE LET r == ReadMessage(rs) IN
         IF r.err # "" THEN [msgs |-> << >>, err |-> r.err, rest |-> r.rest]
         ELSE LET more == ReadN(r.rest, n - 1) IN
              [msgs |-> << [type |-> r.type, data |-> r.data] >> \o more.msgs,
               err |-> more.err, rest |-> more.rest]

\* the bytes n successive WriteMessage calls put on one writer
RECURSIVE WriteAll(_)
WriteAll(msgs) ==
    IF msgs = << >> THEN << >> ELSE WriteMessage(Head(msgs)) \o WriteAll(Tail(msgs))

\* a PutUint16 in little endian
BE16_Little(n) == << n % 256, (n \div 256) % 256 >>

\* binary.BigEndian.PutUint16
BE16(n) == << (n \div 256) % 256, n % 256 >>

\* binary.BigEndian.Uint16
U16(b) == b[1] * 256 + b[2]

\* EncodeResize
EncodeResize(rows, cols) == BE16(rows) \o BE16(cols)

\* DecodeResize
DecodeResize(data) ==
    IF Len(data) < 4 THEN [rows |-> 0, cols |-> 0, err |-> "resize payload too short"]
    ELSE [rows |-> U16(SubSeq(data, 1, 2)), cols |-> U16(SubSeq(data, 3, 4)), err |-> ""]

\* EncodeCreate: the parts joined by NUL bytes
RECURSIVE joinNull(_)
joinNull(parts) ==
    IF parts = << >> THEN << >>
    ELSE IF Len(parts) = 1 THEN parts[1]
    ELSE parts[1] \o << 0 >> \o joinNull(Tail(parts))

\* EncodeCreate
EncodeCreate(sessionID, workdir, command, args) ==
    joinNull(<< sessionID, workdir, command >> \o args)

\* splitNull: the loop from index i on, with the current part starting at
\* start; the bytes after the last NUL make a part only when there are any
RECURSIVE splitFrom(_, _, _, _)
splitFrom(data, start, i, parts) ==
    IF i > Len(data)
    THEN IF start <= Len(data) THEN Append(parts, SubSeq(data, start, Len(data))) ELSE parts
    ELSE IF data[i] = 0
    THEN splitFrom(data, i + 1, i + 1, Append(parts, SubSeq(data, start, i - 1)))
    ELSE splitFrom(data, start, i + 1, parts)

\* splitNull
splitNull(data) == splitFrom(data, 1, 1, << >>)

\* DecodeCreate
DecodeCreate(data) ==
    LET parts == splitNull(data) IN
    [sessionID |-> IF Len(parts) >= 1 THEN parts[1] ELSE << >>,
     workdir   |-> IF Len(parts) >= 2 THEN parts[2] ELSE << >>,
     command   |-> IF Len(parts) >= 3 THEN parts[3] ELSE << >>,
     args      |-> IF Len(parts) > 3 THEN SubSeq(parts, 4, Len(parts)) ELSE << >>]

\* length fields and payload sizes of the frames handed to ReadMessage
ReadLengths == {0, 1, MaxMessageLen - 1, MaxMessageLen, MaxMessageLen + 1, 2147483647}
ReadAvail   == {0, 1, MaxMessageLen - 1, MaxMessageLen, MaxMessageLen + 2}

\* the readers handed to ReadMessage: a header and some payload bytes, or a
\* stream that ends inside the header
ReadStreams ==
    { Singles(<< MsgData >> \o BE32(l)) \o (IF a = 0 THEN << >> ELSE << Run(65, a) >>) :
        l \in ReadLengths, a \in ReadAvail }
    \cup { << >>, Singles(<< MsgData, 0, 0 >>) }

\* payloads of the frames written: empty, a NUL byte, two bytes, 1 MiB
Payloads ==
    { << >>, << Run(0, 1) >>, << Run(104, 1), Run(105, 1) >>,
      << Run(7, MaxMessageLen) >>, << Run(1, MaxMessageLen - 1), Run(2, 1) >> }

\* messages handed to WriteMessage, and the sequences of them
Messages == [type : MsgTypes, data : Payloads]
FrameSeqs == UNION { [1..n -> Messages] : n \in 1..MaxFrames }

\* 16-bit window sizes
Uint16s == {0, 1, 255, 256, 24, 80, 65535}

\* NUL-free strings of a CREATE payload
CreateIDs == { << 115, 49 >> }
Workdirs  == { << >>, << 47, 119 >> }
Commands  == { << 115, 104 >> }
ArgStrs   == { << >>, << 45, 99 >> }
ArgLists  == UNION { [1..n -> ArgStrs] : n \in 0..MaxArgs }

\* one call of a codec function with an input of the sets above
InitCodec ==
    /\ IdleExcept("codec")
    /\ \/ \E rs \in ReadStreams : codec = [codecIdle EXCEPT !.op = "read", !.stream = rs]
       \/ \E ms \in FrameSeqs, t \in {<< >>, << Run(9, 1) >>} :
             codec = [codecIdle EXCEPT !.op = "frames", !.msgs = ms, !.tail = t]
       \/ \E r \in Uint16s, c \in Uint16s :
             codec = [codecIdle EXCEPT !.op = "resize", !.rows = r, !.cols = c]
       \/ \E id \in CreateIDs, wd \in Workdirs, cmd \in Commands, args \in ArgLists :
             codec = [codecIdle EXCEPT !.op = "create",
                        !.create = [sessionID |-> id, workdir |-> wd,
                                    command |-> cmd, args |-> args]]

\* ReadMessage on the reader
CodecRead ==
    /\ codec.op = "read" /\ ~codec.done
    /\ codec' = [codec EXCEPT !.done = TRUE, !.res = ReadMessage(codec.stream)]
    /\ UNCHANGED << daemonVars, srv, wire, ws, inst, pidf, session, pane, env, board, term, agent, tui >>

\* WriteMessage of each message on one writer, followed by other bytes, then
\* as many ReadMessage calls on what was written
CodecFrames ==
    /\ codec.op = "frames" /\ ~codec.done
    /\ LET r == ReadN(WriteAll(codec.msgs) \o codec.tail, Len(codec.msgs)) IN
       codec' = [codec EXCEPT !.done = TRUE, !.decoded = r.msgs,
                              !.res = [NoRead EXCEPT !.err = r.err, !.rest = r.rest]]
    /\ UNCHANGED << daemonVars, srv, wire, ws, inst, pidf, session, pane, env, board, term, agent, tui >>

\* DecodeResize(EncodeResize(rows, cols))
CodecResize ==
    /\ codec.op = "resize" /\ ~codec.done
    /\ codec' = [codec EXCEPT !.done = TRUE,
                              !.size = DecodeResize(EncodeResize(codec.rows, codec.cols))]
    /\ UNCHANGED << daemonVars, srv, wire, ws, inst, pidf, session, pane, env, board, term, agent, tui >>

\* DecodeCreate(EncodeCreate(sessionID, workdir, command, args))
CodecCreate ==
    /\ codec.op = "create" /\ ~codec.done
    /\ LET c == codec.create IN
       codec' = [codec EXCEPT !.done = TRUE,
                   !.made = DecodeCreate(EncodeCreate(c.sessionID, c.workdir, c.command, c.args))]
    /\ UNCHANGED << daemonVars, srv, wire, ws, inst, pidf, session, pane, env, board, term, agent, tui >>

NextCodec ==
    \/ CodecRead
    \/ CodecFrames
    \/ CodecResize
    \/ CodecCreate

SpecCodec == InitCodec /\ [][NextCodec]_vars

\* ------------------------------------------------------------------ child environment
\* variable names are sequences of the pieces they are made of, so that
\* "CLAUDE_KEY" has the prefix "CLAUDE_" and "GEMINIKEY" the prefix "GEMINI"
EnvList ==
    << [key |-> << "PATH" >>,               val |-> "/bin"],
       [key |-> << "TERM" >>,               val |-> "dumb"],
       [key |-> << "CLAUDE" >>,             val |-> "1"],
       [key |-> << "CLAUDE", "_", "KEY" >>, val |-> "secret"],
       [key |-> << "OPENCODE", "_", "KEY" >>, val |-> "secret"],
       [key |-> << "GEMINI", "KEY" >>,      val |-> "secret"],
       [key |-> << "CODEX" >>,              val |-> "1"],
       [key |-> << "MY", "_", "CLAUDE" >>,  val |-> "kept"] >>

\* os.Environ(): the variables of EnvList whose indices are in S, in order
RECURSIVE Environ(_, _)
Environ(S, i) ==
    IF i > Len(EnvList) THEN << >>
    ELSE (IF i \in S THEN << EnvList[i] >> ELSE << >>) \o Environ(S, i + 1)

\* strings.HasPrefix(key, prefix)
HasPrefix(key, prefix) ==
    Len(key) >= Len(prefix) /\ SubSeq(key, 1, Len(prefix)) = prefix

\* terminal.buildCleanEnv: the variables it skips
paneSkips(key) ==
    \/ key = << "OPENCODE" >> \/ HasPrefix(key, << "OPENCODE", "_" >>)
    \/ key = << "CLAUDE" >>   \/ HasPrefix(key, << "CLAUDE", "_" >>)
    \/ key = << "GEMINI" >>   \/ HasPrefix(key, << "GEMINI", "_" >>)
    \/ key = << "CODEX" >>    \/ HasPrefix(key, << "CODEX", "_" >>)

TermVar == [key |-> << "TERM" >>, val |-> "xterm-256color"]

\* daemon.buildCleanEnv: os.Environ() with TERM appended
sessionCleanEnv(environ) == Append(environ, TermVar)

\* terminal.buildCleanEnv
paneCleanEnv(environ, sessionName) ==
    SelectSeq(environ, LAMBDA e : ~paneSkips(e.key)) \o << TermVar >>
       \o (IF sessionName # "" 
           THEN << [key |-> << "OPENKANBAN", "_", "SESSION" >>, val |-> sessionName] >>
           ELSE << >>)

\* PtyManager.spawn: { ...process.env, TERM: "xterm-256color" }
ptyEnv(environ) ==
    SelectSeq(environ, LAMBDA e : e.key # TermVar.key) \o << TermVar >>

\* the value the child sees for key: the last one in the list handed to it
Getenv(list, key) ==
    LET I == { i \in 1..Len(list) : list[i].key = key } IN
    IF I = {} THEN "" ELSE list[CHOOSE i \in I : \A j \in I : j <= i].val

\* a process with some of the variables of EnvList is about to spawn a child:
\* the session daemon, a pane of the TUI, or the PTY manager of the server
InitEnv ==
    /\ IdleExcept("env")
    /\ \E S \in SUBSET (1..Len(EnvList)), who \in {"session", "pane", "pty"},
          name \in {"", "tk1"} :
          /\ who # "pane" => name = ""
          /\ env = [envIdle EXCEPT !.who = who, !.environ = Environ(S, 1),
                                   !.sessionName = name]

\* Session.Start of the daemon: cmd.Env = buildCleanEnv()
SessionEnv ==
    /\ env.who = "session" /\ ~env.done
    /\ env' = [env EXCEPT !.done = TRUE, !.out = sessionCleanEnv(env.environ)]
    /\ UNCHANGED << daemonVars, srv, wire, ws, inst, pidf, session, pane, codec, board, term, agent, tui >>

\* Pane.Start: cmd.Env = buildCleanEnv(sessionName)
PaneEnv ==
    /\ env.who = "pane" /\ ~env.done
    /\ env' = [env EXCEPT !.done = TRUE, !.out = paneCleanEnv(env.environ, env.sessionName)]
    /\ UNCHANGED << daemonVars, srv, wire, ws, inst, pidf, session, pane, codec, board, term, agent, tui >>

\* PtyManager.spawn
PtyEnv ==
    /\ env.who = "pty" /\ ~env.done
    /\ env' = [env EXCEPT !.done = TRUE, !.out = ptyEnv(env.environ)]
    /\ UNCHANGED << daemonVars, srv, wire, ws, inst, pidf, session, pane, codec, board, term, agent, tui >>

NextEnv ==
    \/ SessionEnv
    \/ PaneEnv
    \/ PtyEnv

SpecEnv == InitEnv /\ [][NextEnv]_vars

\* ------------------------------------------------------------------ board store
\* TicketStatus ("archived" is a status no function of the store tells from
\* "backlog") and the readings of the clock
Statuses == {"backlog", "in_progress", "done"}
Clock    == 1..MaxClock

\* the object literal {}
EmptyObj == [k \in {} |-> Undef]

\* { ...existing, ...patch } over the fields of a ticket
Spread(existing, patch) ==
    [k \in Fields |-> IF k \in DOMAIN patch THEN patch[k] ELSE existing[k]]

\* partial[k] ?? dflt
OrElse(partial, k, dflt) ==
    IF Field(partial, k) = Missing(k) THEN dflt ELSE partial[k]

\* createTicket(partial) of the shared package, read at time `now`, with
\* crypto.randomUUID() yielding uuid
createTicket(partial, now, uuid) ==
    [id           |-> OrElse(partial, "id", uuid),
     description  |-> Field(partial, "description"),
     status       |-> OrElse(partial, "status", "backlog"),
     worktreePath |-> Field(partial, "worktreePath"),
     createdAt    |-> OrElse(partial, "createdAt", now),
     updatedAt    |-> OrElse(partial, "updatedAt", now),
     startedAt    |-> Field(partial, "startedAt"),
     completedAt  |-> Field(partial, "completedAt")]

\* tickets.findIndex((t) => t.id === ticketId), 0 for -1
findIndex(tickets, id) ==
    LET I == { i \in 1..Len(tickets) : tickets[i].id = id } IN
    IF I = {} THEN 0 ELSE CHOOSE i \in I : \A j \in I : i <= j

\* the tickets left by splice(index, 1)
splice(tickets, index) ==
    SubSeq(tickets, 1, index - 1) \o SubSeq(tickets, index + 1, Len(tickets))

\* an updateTicket that takes the id from the patch
updated_IdFromPatch(existing, patch, now) ==
    [Spread(existing, patch) EXCEPT !.createdAt = existing.createdAt,
                                    !.updatedAt = now]

\* BoardStore.updateTicket: the ticket it stores
updated(existing, patch, now) ==
    [Spread(existing, patch) EXCEPT !.id = existing.id,
                                    !.createdAt = existing.createdAt,
                                    !.updatedAt = now]

\* BoardStore.moveTicket: the patch it hands to updateTicket
movePatch(ticket, status, now) ==
    [k \in {"status"}
          \cup (IF status = "in_progress" /\ ticket.startedAt = NoTime
                THEN {"startedAt"} ELSE {})
          \cup (IF status = "done" /\ ticket.completedAt = NoTime
                THEN {"completedAt"} ELSE {})
       |-> IF k = "status" THEN status ELSE now]

\* startTicketWork: the patch it hands to updateTicket (created: createWorktree
\* returned a path)
startPatch(ticket, created, now) ==
    IF ticket.worktreePath = Undef /\ created
    THEN [worktreePath |-> "wt", status |-> "in_progress", startedAt |-> now]
    ELSE [status |-> "in_progress", startedAt |-> now]

\* a scheduleSave that sets a timer and clears none
scheduleSave_NoClear(b) ==
    [b EXCEPT !.timers = @ \cup {b.nMut + 1},
              !.saveTimeout = b.nMut + 1]

\* BoardStore.scheduleSave: the pending timer, if any, is cleared and a new
\* one is set (timer handles are numbered from 1)
scheduleSave(b) ==
    [b EXCEPT !.timers = (@ \ {b.saveTimeout}) \cup {b.nMut + 1},
              !.saveTimeout = b.nMut + 1]

\* the in-memory board of the store
Memory(b) == [tickets |-> b.tickets, settings |-> b.settings]

\* BoardStore.getTicket: the ticket with this id, as the store holds it
getTicket(id) == board.tickets[findIndex(board.tickets, id)]

\* the store after a mutation that leaves the tickets and settings given and
\* schedules a save
MutatedBoard(tickets, settings, last) ==
    LET b == [board EXCEPT !.tickets = tickets, !.settings = settings] IN
    [scheduleSave(b) EXCEPT !.nMut = @ + 1, !.last = last,
                            !.held = @ \cup {Stringify(Memory(b))}]

Mutated(tickets, settings, last) == board' = MutatedBoard(tickets, settings, last)

\* a createTicket that puts the new ticket first
createdBoard_Unshift(data) ==
    LET ticket == createTicket(data, board.now, board.made + 1) IN
    [MutatedBoard(<< ticket >> \o board.tickets, board.settings,
                  Op("create", ticket.id, DOMAIN data, NoTicket))
        EXCEPT !.made = @ + 1]

\* BoardStore.createTicket(data): the store it leaves (crypto.randomUUID()
\* yields an id no ticket had before)
createdBoard(data) ==
    LET ticket == createTicket(data, board.now, board.made + 1) IN
    [MutatedBoard(Append(board.tickets, ticket), board.settings,
                  Op("create", ticket.id, DOMAIN data, NoTicket))
        EXCEPT !.made = @ + 1]

\* BoardStore.updateTicket(ticketId, patch) for a ticket of the board, called
\* as `op`: the store it leaves
updatedBoard(op, id, patch) ==
    LET i == findIndex(board.tickets, id) IN
    MutatedBoard([board.tickets EXCEPT ![i] = updated(@, patch, board.now)],
                 board.settings, Op(op, id, DOMAIN patch, board.tickets[i]))

\* BoardStore.deleteTicket(ticketId) for a ticket of the board: the store it
\* leaves
deletedBoard(id) ==
    MutatedBoard(splice(board.tickets, findIndex(board.tickets, id)), board.settings,
                 Op("delete", id, {}, board.tickets[findIndex(board.tickets, id)]))

\* the store is between two calls, and the run may go on
Callable == board.pc = "idle" /\ board.nMut < MaxMutations

otherThanBoard == << daemonVars, srv, wire, ws, inst, pidf, session, pane, codec, env, term, agent, tui >>

\* the ids crypto.randomUUID() yields over a run, in the order of creation
TicketIDs == 1..(MaxMutations + 1)

\* what a client may send as the ticket of ticket:create
CreateData ==
    {EmptyObj, [createdAt |-> MaxClock, updatedAt |-> 1]}

\* what a client may send as the patch of PATCH /:id and ticket:update
Patches ==
    { [description |-> "y"],
      [status |-> "done"],
      [worktreePath |-> Undef],
      [id |-> MaxMutations + 2, createdAt |-> MaxClock, updatedAt |-> 1] }

\* the store was loaded from no file, or from the board.json of an earlier run
InitBoard ==
    /\ \E file \in {NoFile,
                    WholeFile(Stringify([tickets  |-> << createTicket(EmptyObj, 1, 1) >>,
                                         settings |-> DEFAULT_SETTINGS]))} :
          board = boardStart(file)
    /\ IdleExcept("board")

\* the wall clock moves on
Tick ==
    /\ board.pc = "idle"
    /\ board.now < MaxClock
    /\ board' = [board EXCEPT !.now = @ + 1]
    /\ UNCHANGED otherThanBoard

\* BoardStore.createTicket(data)
CreateTicket(data) ==
    /\ Callable
    /\ Len(board.tickets) < MaxTickets
    /\ board' = createdBoard(data)
    /\ UNCHANGED otherThanBoard

\* BoardStore.updateTicket(ticketId, patch) on a ticket of the board (it
\* returns undefined, and changes nothing, for any other id)
UpdateTicket(id, patch) ==
    /\ Callable
    /\ findIndex(board.tickets, id) # 0
    /\ board' = updatedBoard("update", id, patch)
    /\ UNCHANGED otherThanBoard

\* BoardStore.moveTicket(ticketId, status)
MoveTicket(id, status) ==
    /\ Callable
    /\ findIndex(board.tickets, id) # 0
    /\ board' = updatedBoard("move", id, movePatch(getTicket(id), status, board.now))
    /\ UNCHANGED otherThanBoard

\* moveTicketWithWorkflow(ticketId, newStatus): startTicketWork for a ticket
\* that enters in_progress, BoardStore.moveTicket otherwise (autoSpawn is off,
\* as in DEFAULT_SETTINGS)
MoveTicketWithWorkflow(id, newStatus, created) ==
    /\ Callable
    /\ findIndex(board.tickets, id) # 0
    /\ LET i == findIndex(board.tickets, id)
           ticket == board.tickets[i]
           patch == IF newStatus = "in_progress" /\ ticket.status # "in_progress"
                    THEN startPatch(ticket, created, board.now)
                    ELSE movePatch(ticket, newStatus, board.now) IN
       Mutated([board.tickets EXCEPT ![i] = updated(@, patch, board.now)],
               board.settings,
               Op("moveWithWorkflow", id, DOMAIN patch, ticket))
    /\ UNCHANGED otherThanBoard

\* BoardStore.deleteTicket(ticketId)
DeleteTicket(id) ==
    /\ Callable
    /\ findIndex(board.tickets, id) # 0
    /\ board' = deletedBoard(id)
    /\ UNCHANGED otherThanBoard

\* BoardStore.updateSettings(settings)
UpdateSettings(defaultAgent) ==
    /\ Callable
    /\ Mutated(board.tickets, [board.settings EXCEPT !.defaultAgent = defaultAgent],
               Op("settings", 0, {"defaultAgent"}, NoTicket))
    /\ UNCHANGED otherThanBoard

\* the timer h set by scheduleSave fires: flush() is entered
TimerFires(h) ==
    /\ board.pc = "idle"
    /\ h \in board.timers
    /\ board' = [board EXCEPT !.timers = @ \ {h}, !.pc = "flush"]
    /\ UNCHANGED otherThanBoard

\* flush: mkdirSync returned and writeFileSync has opened board.json.tmp,
\* which is created or truncated
FlushOpen ==
    /\ board.pc = "flush"
    /\ board' = [board EXCEPT !.tmp = PartialFile(Stringify(Memory(board))),
                              !.pc = "write"]
    /\ UNCHANGED otherThanBoard

\* flush: writeFileSync has written the whole serialization and returned
FlushWrite ==
    /\ board.pc = "write"
    /\ board' = [board EXCEPT !.tmp = WholeFile(Stringify(Memory(board))),
                              !.dirty = @ \cup {"tmp"},
                              !.pc = "rename"]
    /\ UNCHANGED otherThanBoard

\* flush: renameSync(tempFile, BOARD_FILE), with no fsync before it: the data
\* of the file may still be unwritten when the new name is in place
FlushRename ==
    /\ board.pc = "rename"
    /\ board' = [board EXCEPT !.json = board.tmp, !.tmp = NoFile, !.pc = "idle",
                              !.dirty = IF "tmp" \in @ THEN {"json"} ELSE {},
                              !.last = Op("flushed", 0, {}, NoTicket)]
    /\ UNCHANGED otherThanBoard

\* a flush whose catch loads the board back from board.json
FlushFails_Reloads ==
    /\ board.pc \in {"flush", "write", "rename"}
    /\ board' = [board EXCEPT !.pc = "idle",
                              !.tickets = load(board.json).tickets,
                              !.settings = load(board.json).settings,
                              !.last = Op("flush failed", 0, {}, NoTicket)]
    /\ UNCHANGED otherThanBoard

\* flush: mkdirSync, writeFileSync or renameSync throws; the error is logged
FlushFails ==
    /\ board.pc \in {"flush", "write", "rename"}
    /\ board' = [board EXCEPT !.pc = "idle",
                              !.last = Op("flush failed", 0, {}, NoTicket)]
    /\ UNCHANGED otherThanBoard

\* the system writes the data of the files to the disk
Writeback ==
    /\ board.dirty # {}
    /\ board' = [board EXCEPT !.dirty = {}]
    /\ UNCHANGED otherThanBoard

\* the file `name` after the machine stopped: data that was not written to
\* the disk may be missing from it
AfterPowerLoss(name, file) ==
    IF name \in board.dirty THEN {file, PartialFile(file.text)} ELSE {file}

\* the process is killed (the files stay as they are) or, with powerLoss, the
\* machine stops; the memory of the process and its timer are gone
Crash(powerLoss) ==
    /\ board.pc # "crashed"
    /\ \E tmp \in (IF powerLoss THEN AfterPowerLoss("tmp", board.tmp) ELSE {board.tmp}),
          json \in (IF powerLoss THEN AfterPowerLoss("json", board.json) ELSE {board.json}) :
          board' = [boardStart(NoFile) EXCEPT !.pc = "crashed", !.held = board.held,
                                              !.tmp = tmp, !.json = json]
    /\ UNCHANGED otherThanBoard

NextBoard ==
    \/ Tick
    \/ \E data \in CreateData : CreateTicket(data)
    \/ \E id \in TicketIDs, patch \in Patches : UpdateTicket(id, patch)
    \/ \E id \in TicketIDs, status \in Statuses : MoveTicket(id, status)
    \/ \E id \in TicketIDs, status \in Statuses, created \in BOOLEAN :
          MoveTicketWithWorkflow(id, status, created)
    \/ \E id \in TicketIDs : DeleteTicket(id)
    \/ UpdateSettings("claude")
    \/ \E h \in 1..MaxMutations : TimerFires(h)
    \/ FlushOpen
    \/ FlushWrite
    \/ FlushRename
    \/ FlushFails
    \/ Writeback
    \/ \E powerLoss \in BOOLEAN : Crash(powerLoss)

SpecBoard == InitBoard /\ [][NextBoard]_vars

\* the store in a process that keeps running: a timer that is set fires
\* after its 500 ms unless it is cleared, and a flush that has begun goes on
\* to its end or to its catch
Mutation ==
    \/ \E data \in CreateData : CreateTicket(data)
    \/ \E id \in TicketIDs, patch \in Patches : UpdateTicket(id, patch)
    \/ \E id \in TicketIDs, status \in Statuses : MoveTicket(id, status)
    \/ \E id \in TicketIDs, status \in Statuses, created \in BOOLEAN :
          MoveTicketWithWorkflow(id, status, created)
    \/ \E id \in TicketIDs : DeleteTicket(id)
    \/ UpdateSettings("claude")

TimerStep == \E h \in 1..MaxMutations : TimerFires(h)

FlushStep == FlushOpen \/ FlushWrite \/ FlushRename \/ FlushFails

NextDebounce == Tick \/ Mutation \/ TimerStep \/ FlushStep

SpecDebounce ==
    InitBoard /\ [][NextDebounce]_vars /\ WF_vars(TimerStep) /\ WF_vars(FlushStep)

\* ------------------------------------------------------------------ board events
\* the message that reports the last mutation of store b
EventOf(b) ==
    [type |-> CASE b.last.op = "create" -> "ticket:created"
                [] b.last.op = "delete" -> "ticket:deleted"
                [] OTHER -> "ticket:updated",
     id   |-> b.last.id]

\* broadcast(msg): client.send to the connections with subscribedToBoard
broadcast(b, msg) ==
    [b EXCEPT !.events = [c \in WsClients |->
                             IF c \in b.subs THEN Append(b.events[c], msg)
                             ELSE b.events[c]]]

\* handleBoardSubscribe: the connection is flagged and sent the board
HandleBoardSubscribe(c) ==
    /\ board.pc = "idle"
    /\ board.nSub < MaxSubscribes
    /\ board' = [board EXCEPT !.subs = @ \cup {c},
                              !.nSub = @ + 1,
                              !.events[c] = Append(@, [type |-> "board:state",
                                                      board |-> Memory(board)])]
    /\ UNCHANGED otherThanBoard

\* routeMessage, board:unsubscribe
HandleBoardUnsubscribe(c) ==
    /\ board.pc = "idle"
    /\ c \in board.subs
    /\ board' = [board EXCEPT !.subs = @ \ {c}]
    /\ UNCHANGED otherThanBoard

\* handleTicketCreate
HandleTicketCreate(data) ==
    /\ Callable
    /\ Len(board.tickets) < MaxTickets
    /\ board' = broadcast(createdBoard(data), EventOf(createdBoard(data)))
    /\ UNCHANGED otherThanBoard

\* handleTicketUpdate, the ticket is found (sendError otherwise)
HandleTicketUpdate(id, patch) ==
    /\ Callable
    /\ findIndex(board.tickets, id) # 0
    /\ LET b == updatedBoard("update", id, patch) IN
       board' = broadcast(b, EventOf(b))
    /\ UNCHANGED otherThanBoard

\* handleTicketDelete, the ticket is found (sendError otherwise)
HandleTicketDelete(id) ==
    /\ Callable
    /\ findIndex(board.tickets, id) # 0
    /\ board' = broadcast(deletedBoard(id), EventOf(deletedBoard(id)))
    /\ UNCHANGED otherThanBoard

\* handleTicketMove, the ticket is found (sendError otherwise)
HandleTicketMove(id, status) ==
    /\ Callable
    /\ findIndex(board.tickets, id) # 0
    /\ LET b == updatedBoard("move", id, movePatch(getTicket(id), status, board.now)) IN
       board' = broadcast(b, EventOf(b))
    /\ UNCHANGED otherThanBoard

\* getTicketsByStatus(status) of the TUI's store, over the tickets of a board
getTicketsByStatus(tickets, status) ==
    SelectSeq(tickets, LAMBDA t : t.status = status)

\* the WebSocket handlers of tickets, and the routes of boardRoutes: POST
\* /tickets, PATCH /:id, DELETE /:id and POST /:id/move call the store and
\* return its result
NextEvents ==
    \/ \E c \in WsClients : HandleBoardSubscribe(c)
    \/ \E c \in WsClients : HandleBoardUnsubscribe(c)
    \/ \E data \in CreateData : HandleTicketCreate(data)
    \/ \E id \in TicketIDs, patch \in Patches : HandleTicketUpdate(id, patch)
    \/ \E id \in TicketIDs : HandleTicketDelete(id)
    \/ \E id \in TicketIDs, status \in Statuses : HandleTicketMove(id, status)
    \/ CreateTicket(EmptyObj)
    \/ \E id \in TicketIDs, patch \in Patches : UpdateTicket(id, patch)
    \/ \E id \in TicketIDs : DeleteTicket(id)
    \/ \E id \in TicketIDs, status \in Statuses : MoveTicket(id, status)

SpecEvents == InitBoard /\ [][NextEvents]_vars

\* ------------------------------------------------------------------ terminal scrollback
otherThanTerm == << daemonVars, srv, wire, ws, inst, pidf, session, pane, codec, env, board, agent, tui >>

\* the lines a row scrolled off the screen can be
ScreenLines == {NilLine, Line(<< 1 >>), Line(<< 2 >>)}

InitTerm ==
    /\ \E scrollbackSize \in 1..ScrollCap : term = termStart(scrollbackSize)
    /\ IdleExcept("term")

\* ScrollbackBuffer.Push(line): a copy of the line is stored at head, head
\* moves on around the ring, count grows up to the capacity
Push(line) ==
    /\ Len(term.pushed) < MaxPushes
    /\ LET sb == term.scrollback
           lineCopy == Line(line.glyphs)
       IN  term' = [term EXCEPT
                      !.scrollback = [sb EXCEPT
                          !.lines[sb.head] = lineCopy,
                          !.head = (sb.head + 1) % sb.capacity,
                          !.count = IF sb.count < sb.capacity THEN sb.count + 1 ELSE sb.count],
                      !.pushed = Append(@, line)]
    /\ UNCHANGED otherThanTerm

\* ScrollbackBuffer.Len()
BufLen == term.scrollback.count

\* ScrollbackBuffer.Get(index) with the wrap left out
Get_NoWrap(index) ==
    LET sb == term.scrollback IN
    IF index < 0 \/ index >= sb.count THEN NilLine
    ELSE sb.lines[index]

\* ScrollbackBuffer.Get(index): nil out of bounds, else the line at index
\* (not full) or at (head + index) % capacity (full)
Get(index) ==
    LET sb == term.scrollback IN
    IF index < 0 \/ index >= sb.count THEN NilLine
    ELSE LET actualIndex == IF sb.count < sb.capacity THEN index
                            ELSE (sb.head + index) % sb.capacity
         IN  sb.lines[actualIndex]

\* ScrollbackBuffer.Clear(): every slot nil, head and count 0
Clear ==
    /\ term' = [term EXCEPT
                  !.scrollback = [@ EXCEPT !.lines = [i \in DOMAIN @ |-> NilLine],
                                           !.head = 0, !.count = 0],
                  !.pushed = << >>]
    /\ UNCHANGED otherThanTerm

NextScrollback ==
    \/ \E line \in ScreenLines : Push(line)
    \/ Clear

SpecScrollback == InitTerm /\ [][NextScrollback]_vars

\* ------------------------------------------------------------------ terminal viewport
\* the line counts HandleMouse (3 per wheel step) and HandleKey (half the
\* rows per page key) scroll by
WheelLines == 3
ScrollSteps == {WheelLines, PaneRows \div 2}

\* Pane.scrollUp(lines) with the cap left out
scrollUp_NoCap(lines) ==
    /\ term' = [term EXCEPT !.viewportOffset = term.viewportOffset + lines]
    /\ UNCHANGED otherThanTerm

\* Pane.scrollUp(lines): the offset grows by lines, capped at scrollback.Len()
scrollUp(lines) ==
    /\ LET maxOffset == BufLen
           offset == term.viewportOffset + lines
       IN  term' = [term EXCEPT
                      !.viewportOffset = IF offset > maxOffset THEN maxOffset ELSE offset]
    /\ UNCHANGED otherThanTerm

\* Pane.scrollDown(lines): the offset shrinks by lines, floored at 0
scrollDown(lines) ==
    /\ LET offset == term.viewportOffset - lines
       IN  term' = [term EXCEPT !.viewportOffset = IF offset < 0 THEN 0 ELSE offset]
    /\ UNCHANGED otherThanTerm

NextViewport ==
    \/ \E line \in ScreenLines : Push(line)
    \/ \E lines \in ScrollSteps : scrollUp(lines)
    \/ \E lines \in ScrollSteps : scrollDown(lines)

SpecViewport == InitTerm /\ [][NextViewport]_vars

\* ------------------------------------------------------------------ terminal selection
\* the positions a mouse event can name (rows below 0 are scrollback rows)
Positions == [Row : -1..1, Col : 0..2]

\* SelectionState.Start(pos): selecting, anchor and cursor at pos
Start(pos) ==
    /\ term' = [term EXCEPT !.selection =
                   [Mode |-> "SelectionSelecting", Anchor |-> pos, Cursor |-> pos]]
    /\ UNCHANGED otherThanTerm

\* SelectionState.Update(pos): the cursor moves, while selecting only
Update(pos) ==
    /\ term' = IF term.selection.Mode = "SelectionSelecting"
               THEN [term EXCEPT !.selection.Cursor = pos]
               ELSE term
    /\ UNCHANGED otherThanTerm

\* SelectionState.Finish() without the test for a click without drag
Finish_AlwaysSelected ==
    /\ term' = IF term.selection.Mode = "SelectionSelecting"
               THEN [term EXCEPT !.selection.Mode = "SelectionSelected"]
               ELSE term
    /\ UNCHANGED otherThanTerm

\* SelectionState.Finish(): while selecting, selected when anchor and cursor
\* differ and idle when they are the same
Finish ==
    /\ term' = IF term.selection.Mode = "SelectionSelecting"
               THEN [term EXCEPT !.selection.Mode =
                        IF term.selection.Anchor # term.selection.Cursor
                        THEN "SelectionSelected" ELSE "SelectionIdle"]
               ELSE term
    /\ UNCHANGED otherThanTerm

\* SelectionState.Clear(): idle, anchor and cursor zero
SelectionStateClear ==
    /\ term' = [term EXCEPT !.selection =
                   [Mode |-> "SelectionIdle", Anchor |-> ZeroPos, Cursor |-> ZeroPos]]
    /\ UNCHANGED otherThanTerm

NextSelection ==
    \/ \E pos \in Positions : Start(pos)
    \/ \E pos \in Positions : Update(pos)
    \/ Finish
    \/ SelectionStateClear

SpecSelection == InitTerm /\ [][NextSelection]_vars

\* ------------------------------------------------------------------ agent sessions
otherThanAgent == << daemonVars, srv, wire, ws, inst, pidf, session, pane, codec, env, board, term, tui >>

\* PtyManager.spawn(ticketId, ...): a new process under a new session id,
\* registered in the manager's sessions
ptySpawned(a, ticketId) ==
    [a EXCEPT !.made = @ + 1,
              !.sessions = @ \cup {[id |-> a.made + 1, ticketId |-> ticketId]}]

\* PtyManager.kill(sessionId): the session's process is killed and the
\* session removed, if there is one
ptyKilled(a, sessionId) ==
    [a EXCEPT !.sessions = {s \in @ : s.id # sessionId}]

\* PtyManager.getSession(ticketId) finds a session
hasPty(a, ticketId) == \E s \in a.sessions : s.ticketId = ticketId

\* handleAgentSpawn(ws, ticketId): spawns and sets the ticket's
\* terminalSessionId
HandleAgentSpawn(ticketId) ==
    /\ agent.made < MaxSpawns
    /\ agent' = [ptySpawned(agent, ticketId) EXCEPT
                    !.terminalSessionId[ticketId] = agent.made + 1]
    /\ UNCHANGED otherThanAgent

\* handleAgentKill(ws, ticketId): an error when the ticket has no
\* terminalSessionId; else kills that session and unsets the field
HandleAgentKill(ticketId) ==
    /\ agent' = IF agent.terminalSessionId[ticketId] = NoSession THEN agent
                ELSE [ptyKilled(agent, agent.terminalSessionId[ticketId]) EXCEPT
                         !.terminalSessionId[ticketId] = NoSession]
    /\ UNCHANGED otherThanAgent

\* AgentSpawner.spawn(ticketId): returns the agent session the spawner has
\* for the ticket, else spawns, records the agent session and sets the
\* ticket's terminalSessionId
AgentSpawn(ticketId) ==
    /\ agent.made < MaxSpawns
    /\ agent' = IF agent.agentSessions[ticketId] # NoSession THEN agent
                ELSE [ptySpawned(agent, ticketId) EXCEPT
                         !.agentSessions[ticketId] = agent.made + 1,
                         !.terminalSessionId[ticketId] = agent.made + 1]
    /\ UNCHANGED otherThanAgent

\* AgentSpawner.kill(ticketId): nothing without an agent session; else
\* kills its PTY session, forgets it and unsets the ticket's field
AgentKill(ticketId) ==
    /\ agent' = IF agent.agentSessions[ticketId] = NoSession THEN agent
                ELSE [ptyKilled(agent, agent.agentSessions[ticketId]) EXCEPT
                         !.agentSessions[ticketId] = NoSession,
                         !.terminalSessionId[ticketId] = NoSession]
    /\ UNCHANGED otherThanAgent

\* proc.exited resolves for a live session: the manager drops the session
ProcExited(sessionId) ==
    /\ \E s \in agent.sessions : s.id = sessionId
    /\ agent' = ptyKilled(agent, sessionId)
    /\ UNCHANGED otherThanAgent

\* pollAllStatuses: the spawner forgets the agent sessions of tickets for
\* which the manager has no session
PollAllStatuses ==
    /\ agent' = [agent EXCEPT !.agentSessions =
                    [t \in AgentTickets |-> IF hasPty(agent, t) THEN @[t] ELSE NoSession]]
    /\ UNCHANGED otherThanAgent

InitAgent == agentInit /\ IdleExcept("agent")

NextAgent ==
    \/ \E t \in AgentTickets : HandleAgentSpawn(t)
    \/ \E t \in AgentTickets : HandleAgentKill(t)
    \/ \E t \in AgentTickets : AgentSpawn(t)
    \/ \E t \in AgentTickets : AgentKill(t)
    \/ \E id \in 1..MaxSpawns : ProcExited(id)
    \/ PollAllStatuses

SpecAgent == InitAgent /\ [][NextAgent]_vars

\* ------------------------------------------------------------------ TUI connection
otherThanTui == << daemonVars, srv, wire, ws, inst, pidf, session, pane, codec, env, board, term, agent >>

\* Connection.maxReconnectAttempts
maxReconnectAttempts == 10

\* ws.close() on socket k: a socket that is connecting or open starts to
\* close (its close event comes later); no socket, or one that is closing
\* or closed, is left as it is
closeSocket(states, k) ==
    IF k # NoSocket /\ states[k] \in {"CONNECTING", "OPEN"}
    THEN [states EXCEPT ![k] = "CLOSING"] ELSE states

\* Connection.connect(): nothing when the current socket is open; else a new
\* WebSocket becomes the current one (the one before keeps its handlers)
connect(c) ==
    IF c.ws # NoSocket /\ c.readyState[c.ws] = "OPEN" THEN c
    ELSE [c EXCEPT !.readyState = Append(@, "CONNECTING"),
                   !.ws = Len(c.readyState) + 1]

\* Connection.scheduleReconnect(): nothing when a timer is pending or the
\* attempts are used up; else one more attempt and a timer
scheduleReconnect(c) ==
    IF c.reconnectTimer THEN c
    ELSE IF c.reconnectAttempts >= maxReconnectAttempts THEN c
    ELSE [c EXCEPT !.reconnectAttempts = @ + 1, !.reconnectTimer = TRUE]

\* the application calls connect()
Connect ==
    /\ ~tui.disconnected
    /\ Len(tui.readyState) < MaxSockets
    /\ tui' = connect(tui)
    /\ UNCHANGED otherThanTui

\* the reconnect timer fires: the timer is forgotten and connect() called
ReconnectTimerFires ==
    /\ tui.reconnectTimer
    /\ Len(tui.readyState) < MaxSockets
    /\ tui' = connect([tui EXCEPT !.reconnectTimer = FALSE])
    /\ UNCHANGED otherThanTui

\* socket k opens; its onopen handler resets the attempts
OnOpen(k) ==
    /\ k \in DOMAIN tui.readyState /\ tui.readyState[k] = "CONNECTING"
    /\ tui' = [tui EXCEPT !.readyState[k] = "OPEN", !.reconnectAttempts = 0]
    /\ UNCHANGED otherThanTui

\* socket k fails; its onerror handler closes the current socket
OnError(k) ==
    /\ k \in DOMAIN tui.readyState /\ tui.readyState[k] \in {"CONNECTING", "OPEN"}
    /\ tui' = [tui EXCEPT !.readyState = closeSocket(@, tui.ws)]
    /\ UNCHANGED otherThanTui

\* socket k is closed (by the server, by a failure or after close()); its
\* onclose handler calls scheduleReconnect()
OnClose(k) ==
    /\ k \in DOMAIN tui.readyState /\ tui.readyState[k] # "CLOSED"
    /\ tui' = scheduleReconnect([tui EXCEPT !.readyState[k] = "CLOSED"])
    /\ UNCHANGED otherThanTui

\* Connection.disconnect(): the timer is cleared, the current socket closed
\* and forgotten
Disconnect ==
    /\ ~tui.disconnected
    /\ tui' = [tui EXCEPT !.reconnectTimer = FALSE,
                          !.readyState = closeSocket(@, tui.ws),
                          !.ws = NoSocket,
                          !.disconnected = TRUE]
    /\ UNCHANGED otherThanTui

InitTui == tuiInit /\ IdleExcept("tui")

NextTui ==
    \/ Connect
    \/ ReconnectTimerFires
    \/ \E k \in 1..MaxSockets : OnOpen(k)
    \/ \E k \in 1..MaxSockets : OnError(k)
    \/ \E k \in 1..MaxSockets : OnClose(k)
    \/ Disconnect

SpecTui == InitTui /\ [][NextTui]_vars

\* ------------------------------------------------------------------ claims
\* a handler has just read a frame of type t from c and is writing its reply
Serves(c, t) == req[c] = NoReq /\ req'[c].type = t

\* the reader of o writes a DATA frame to c, and it reaches the client
DataSent(o, c) ==
    /\ readPC[o] = "send"
    /\ readConns'[o] # readConns[o]
    /\ Head(readConns[o]) = c
    /\ Delivers(c)

\* the waiter of o writes its EXIT frame to c, and it reaches the client
ExitSent(o, c) ==
    /\ waitPC[o] = "send"
    /\ waitConns'[o] # waitConns[o]
    /\ Head(waitConns[o]) = c
    /\ Delivers(c)

\* C1: every connection's attached session id is unset or names a session
\* in the registry, at every point in time (so the attachment is cleared when
\* the session is removed)
C1_AttachedSessionRegistered ==
    \A c \in DOMAIN clients : clients[c] = "" \/ clients[c] \in DOMAIN sessions

\* C2: a session's EXIT frame reaches a connection at most once, never after
\* the session was removed from the registry, and when the session is removed
\* every connected client attached to it has received it
C2_ExitOncePerSubscriber ==
    [][\A o \in Objs :
         /\ \A c \in Conns : exitsTo'[c][o] <= 1
         /\ waitPC[o] = "done" => \A c \in Conns : exitsTo'[c][o] = exitsTo[c][o]
         /\ (waitPC[o] = "delete" /\ waitPC'[o] = "done") =>
               \A c \in DOMAIN clients :
                  (clients[c] = objID[o] /\ Delivers(c)) => exitsTo[c][o] = 1
      ]_vars

\* C2 is reached where a waiter removes its session while a connected client
\* is attached to it
C2_RemovedWhileAttached ==
    \E o \in Objs : \E c \in DOMAIN clients :
       /\ waitPC[o] = "done" /\ objID[o] \notin DOMAIN sessions
       /\ clients[c] = objID[o] /\ Delivers(c) /\ exitsTo[c][o] = 0

\* the connection of c is closing: the client closes its end, or the handler
\* of c runs a half of its deferred function
Disconnects(c) ==
    \/ peerOpen[c] /\ ~peerOpen'[c]
    \/ pc[c] = "read" /\ pc'[c] = "removed"
    \/ pc[c] = "removed" /\ pc'[c] = "closed"

\* C3: no step of a connection's closing stops or removes a session (the
\* registry, the running flags and the sessions' reader and waiter stay as
\* they are), and an ATTACH to a registered running session is answered with
\* SESSION_OK and binds the caller, whoever created the session
C3_DisconnectKeepsSession ==
    [][\A c \in Conns :
         /\ Disconnects(c) =>
               /\ sessions' = sessions
               /\ running' = running
               /\ readPC' = readPC
               /\ waitPC' = waitPC
         /\ (Serves(c, "ATTACH") /\ req'[c].id \in DOMAIN sessions
                                 /\ running[sessions[req'[c].id]]) =>
               /\ req'[c].reply = OK
               /\ clients'[c] = req'[c].id
      ]_vars

\* C3 is reached where A created a session and its connection is closed, and
\* B is answered SESSION_OK for an ATTACH to that session, which still runs
C3_AttachAfterCreatorClosed ==
    /\ pc["A"] = "closed"
    /\ req["B"].type = "ATTACH"
    /\ req["B"].reply = OK
    /\ req["B"].id \in DOMAIN sessions
    /\ objSpec[sessions[req["B"].id]].command = "sh"
    /\ running[sessions[req["B"].id]]
    /\ clients["B"] = req["B"].id

\* C4: no DATA and no EXIT frame reaches a connection whose disconnect the
\* server has processed (removeClient and conn.Close have run)
C4_NoFrameAfterDisconnect ==
    [][\A o \in Objs, c \in Conns :
          (DataSent(o, c) \/ ExitSent(o, c)) => pc[c] # "closed"
      ]_vars

\* C4 is reached where a broadcast collected a connection before its
\* disconnect and writes to it afterwards
C4_WriteToClosedConn ==
    \E o \in Objs :
       \/ readPC[o] = "send" /\ pc[Head(readConns[o])] = "closed"
       \/ waitPC[o] = "send" /\ pc[Head(waitConns[o])] = "closed"

\* the sessions whose waiter has not yet removed them
Live == { o \in Objs : waitPC[o] \notin {"none", "done"} }

\* C5: a CREATE for a registered id starts no child, leaves the registry and
\* the registered session's command, args and workdir as they are, has on the
\* caller's attachment the effect ATTACH has and is answered as ATTACH is,
\* with SESSION_OK; and no two sessions are registered under one id
C5_CreateExistingIsAttach ==
    [][/\ \A c \in Conns :
            (Serves(c, "CREATE") /\ req'[c].id \in DOMAIN sessions) =>
               /\ nSpawn' = nSpawn
               /\ sessions' = sessions
               /\ objID' = objID /\ objSpec' = objSpec
               /\ running' = running
               /\ readPC' = readPC /\ waitPC' = waitPC
               /\ clients' = attachClients(c, req'[c].id)
               /\ req'[c].reply = attachReply(req'[c].id)
               /\ req'[c].reply = OK
       /\ \A o, p \in Live' : objID'[o] = objID'[p] => o = p
       /\ \A o \in Live' : objID'[o] \in DOMAIN sessions' /\ sessions'[objID'[o]] = o
      ]_vars

\* C6: a CREATE whose session.Start fails is answered with SESSION_ERROR,
\* registers nothing under the id, starts no session, no reader and no waiter,
\* and leaves every connection's attachment as it was
C6_SpawnFailureLeavesNothing ==
    [][\A c \in Conns :
          (Serves(c, "CREATE") /\ req'[c].reply = Err(<<"pty.Start">>)) =>
             /\ req'[c].reply.type = "SESSION_ERROR"
             /\ req'[c].id \notin DOMAIN sessions'
             /\ sessions' = sessions
             /\ running' = running /\ nSpawn' = nSpawn
             /\ readPC' = readPC /\ waitPC' = waitPC
             /\ clients' = clients
      ]_vars

\* C6 is reached where a connection attached to a session is refused the
\* CREATE of another one because its child could not be started
C6_SpawnFailedWhileAttached ==
    \E c \in DOMAIN clients :
       /\ req[c].type = "CREATE"
       /\ req[c].reply = Err(<<"pty.Start">>)
       /\ clients[c] # "" /\ clients[c] # req[c].id
       /\ req[c].id \notin DOMAIN sessions

\* C7: an ATTACH with an empty id, with an id that is not registered or with
\* the id of a session that no longer runs is answered with SESSION_ERROR
\* and the message of its case, and changes neither the attachments nor the
\* registry
C7_AttachErrors ==
    [][\A c \in Conns : Serves(c, "ATTACH") =>
          LET id == req'[c].id IN
          /\ sessions' = sessions
          /\ id = "" =>
                req'[c].reply = Err(<<"empty session ID">>) /\ clients' = clients
          /\ (id # "" /\ id \notin DOMAIN sessions) =>
                /\ req'[c].reply = Err(<<"session not found: ", id>>)
                /\ clients' = clients
          /\ (id \in DOMAIN sessions /\ ~running[sessions[id]]) =>
                /\ req'[c].reply = Err(<<"session not running: ", id>>)
                /\ clients' = clients
      ]_vars

\* C7 is reached where a connection attached to a registered session is
\* refused an ATTACH to an id that is not registered and keeps its attachment
C7_RefusedWhileAttached ==
    \E c \in DOMAIN clients :
       /\ req[c].type = "ATTACH"
       /\ req[c].reply = Err(<<"session not found: ", req[c].id>>)
       /\ clients[c] \in DOMAIN sessions
       /\ clients[c] # req[c].id

\* the handler of c serves a frame to which no reply is due
Unanswered(c) ==
    \/ HandleDetach(c)
    \/ HandleData(c)
    \/ \E size \in Sizes \cup {ShortSize} : HandleResize(c, size)

\* c is unattached, or the session it is attached to has exited or is gone
NoRunningSession(c) == sessionOf(c) = NoObj \/ ~running[sessionOf(c)]

\* C8: a CREATE or ATTACH frame read from a connection makes its handler write
\* one SESSION_OK or SESSION_ERROR frame to that connection before it reads
\* the next frame; DETACH, DATA and RESIZE frames make it write nothing; and a
\* DATA or RESIZE frame from a connection that is unattached or whose session
\* has exited changes nothing but the count of frames read
C8_RepliesAndSilentDrops ==
    [][\A c \in Conns :
         /\ ( \/ \E id \in IDs \cup {""}, ok \in BOOLEAN :
                    \E sp \in CreateSpecs(c) : HandleCreate(c, id, sp, ok)
              \/ \E id \in IDs \cup {""} : HandleAttach(c, id) ) =>
               /\ req'[c].reply.type \in {"SESSION_OK", "SESSION_ERROR"}
               /\ pc'[c] \in {"write", "writeLocked"}
         /\ (pc[c] \in {"write", "writeLocked"} /\ pc'[c] # pc[c]) =>
               /\ pc'[c] = "read"
               /\ req'[c] = NoReq
               /\ unread' = Wrote(c)
         /\ Unanswered(c) => req'[c] = NoReq /\ pc'[c] = "read" /\ unread' = unread
         /\ ( /\ HandleData(c) \/ \E size \in Sizes \cup {ShortSize} : HandleResize(c, size)
              /\ NoRunningSession(c) ) =>
               /\ ptyIn' = ptyIn
               /\ winsize' = winsize
               /\ UNCHANGED << regVars, running, loopVars >>
      ]_vars

\* C9: a DATA frame reaches no connection whose attachment a DETACH has
\* cleared, and the conns a chunk is to be written to are all the connections
\* attached to the session when the chunk was read
C9_NoDataAfterDetach ==
    [][\A o \in Objs :
         /\ \A c \in Conns :
               DataSent(o, c) => ~(c \in DOMAIN clients /\ clients[c] = "")
         /\ chunks'[o] # chunks[o] =>
               { readConns'[o][i] : i \in DOMAIN readConns'[o] }
                  = { c \in DOMAIN clients : clients[c] = objID[o] }
      ]_vars

\* C9 is reached where the reader is about to write a chunk to a connection
\* that has detached since the chunk was read
C9_DetachedInSnapshot ==
    \E o \in Objs :
       /\ readPC[o] = "send"
       /\ Head(readConns[o]) \in DOMAIN clients
       /\ clients[Head(readConns[o])] = ""
       /\ Delivers(Head(readConns[o]))

\* C10: the reader of a session never waits in a write to a subscriber that
\* has stopped reading
C10_ReaderNeverBlocked ==
    \A o \in Objs : readPC[o] = "send" => ~Blocked(Head(readConns[o]))

\* C10 is reached where the reader waits in its write to the stopped
\* connection while another connection of the chunk is still to be written
C10_OthersWaitBehindSlow ==
    \E o \in Objs :
       /\ readPC[o] = "send"
       /\ Blocked(Head(readConns[o]))
       /\ Len(readConns[o]) > 1
       /\ Delivers(readConns[o][2])

\* the payloads of the DATA messages among msgs, in order
DataPayloads(msgs) ==
    LET data == SelectSeq(msgs, LAMBDA m : m.type = MsgData)
    IN  [i \in 1..Len(data) |-> data[i].data]

\* no goroutine is inside a WriteMessage to the connection
WireQuiet == \A w \in Writers : wire.todo[w] = << >>

\* C11: a connection that stays attached and reads (and is sent no reply)
\* decodes, from the bytes the server wrote to it, DATA frames whose payloads
\* are the chunks read from the PTY, each once and in read order
C11_DataIsChunksRead ==
    (WireQuiet /\ wire.replies = 0) =>
       LET r == ReadMessages(wire.stream) IN
       /\ r.err = ""
       /\ DataPayloads(r.msgs) = wire.read

\* C11 is reached where the session's last chunk and its EXIT frame were
\* written to the connection and the client cannot decode the chunk
C11_ChunkLostAtExit ==
    /\ WireQuiet /\ wire.replies = 0
    /\ wire.exited /\ Len(wire.read) = 1
    /\ ReadMessages(wire.stream).err = "message too large"

\* C12: no DATA frame of a session reaches a connection that the session's
\* EXIT frame has reached
C12_NoDataAfterExit ==
    [][\A o \in Objs, c \in Conns : DataSent(o, c) => exitsTo[c][o] = 0]_vars

\* C12 is reached where the reader still has a chunk to write to a connection
\* that has received the session's EXIT frame
C12_ChunkPendingAfterExit ==
    \E o \in Objs :
       /\ readPC[o] = "send"
       /\ exitsTo[Head(readConns[o])][o] = 1
       /\ Delivers(Head(readConns[o]))

\* the ids a LIST_RESPONSE carries
ListedIDs(reply) == { reply.data[i] : i \in DOMAIN reply.data }

\* C13: a LIST is answered with a LIST_RESPONSE that holds, each once, the ids
\* of the registered sessions that are Running when the handler reads the
\* registry, and no id of a session whose EXIT frame has reached a client
C13_ListIsRunningSessions ==
    [][\A c \in Conns : Serves(c, "LIST") =>
          LET reply == req'[c].reply IN
          /\ reply.type = "LIST_RESPONSE"
          /\ ListedIDs(reply) = { id \in DOMAIN sessions : running[sessions[id]] }
          /\ Len(reply.data) = Cardinality(ListedIDs(reply))
          /\ \A id \in ListedIDs(reply) : \A d \in Conns : exitsTo[d][sessions[id]] = 0
          /\ UNCHANGED << regVars, sessVars, loopVars >>
      ]_vars

\* C13 is reached where a client that has received the EXIT frame of a session
\* still in the registry is answered a LIST with no id
C13_ListOmitsExited ==
    \E c \in Conns : \E o \in Objs :
       /\ req[c].type = "LIST"
       /\ req[c].reply = ListResponse(<< >>)
       /\ exitsTo[c][o] = 1
       /\ objID[o] \in DOMAIN sessions /\ sessions[objID[o]] = o

\* C15: no goroutine is inside a socket write while it holds Server.mu
C15_NoWriteUnderLock == \A c \in Conns : pc[c] # "writeLocked"

\* C15 is reached where handleCreate has started a child and is writing its
\* reply, all under the lock
C15_SpawnAndReplyUnderLock ==
    \E c \in Conns :
       /\ pc[c] = "writeLocked" /\ req[c].type = "CREATE" /\ req[c].reply = OK
       /\ nSpawn = 1 /\ running[1]

\* C14: a WebSocket connection is subscribed to at most one terminal session
\* at a time, a subscribe replacing the subscription it had
C14_OneSubscriptionPerConn ==
    \A w \in Ws : Cardinality(ws.subscribed[w]) <= 1

\* C14 is reached where a connection that subscribed to a second terminal
\* has received output of both
C14_OutputOfTwoTerminals ==
    \E w \in ws.clients : ws.sentTo[w] = Terms /\ ws.subscribed[w] = Terms

\* C16: the socket file of a daemon that listens stays in place: the socket
\* path names its socket as long as it listens, so it keeps accepting
\* connections, whatever other daemon is started
C16_ListeningSocketStays ==
    \A d \in Daemons : inst.d[d] = "listening" => inst.sockFile = d

\* C16 is reached where a daemon started by `daemon run` listens on the path
\* while the daemon that listened before it is still running
C16_TwoDaemonsListen ==
    /\ \A d \in Daemons : inst.d[d] = "listening"
    /\ \A l \in Launchers : inst.l[l] = "off"

\* the process x has found no running daemon and goes on as the instance
Owns(x) == pidf.pc[x] \in {"write", "serve", "serving"}

\* C17: of two starts on one PID file at most one goes on as the instance at
\* any time, and a start that fails fails as already running
C17_OneOwner ==
    /\ \A x, y \in Procs : (Owns(x) /\ Owns(y)) => x = y
    /\ \A x \in Procs : pidf.pc[x] = "failed" => pidf.err[x] = "already running"

\* C17 is reached where one process serves, the other failed to bind the
\* port, and the PID file holds the pid of the one that failed
C17_PidFileNamesLoser ==
    \E x, y \in Procs :
       /\ pidf.pc[x] = "serving"
       /\ pidf.pc[y] = "failed" /\ pidf.err[y] = "EADDRINUSE"
       /\ pidf.file = y

\* the client of c has its end open, c was attached to a session that
\* Server.Close stopped, and no EXIT frame of that session was written to it
AwaitsExit(c) ==
    /\ c \in DOMAIN clients
    /\ clients[c] \in DOMAIN sessions
    /\ sessions[clients[c]] \in srv.closed
    /\ peerOpen[c]
    /\ exitsTo[c][sessions[clients[c]]] = 0

\* C18: once the daemon has removed its socket file on a signal, and when its
\* process exits, every attached client has been sent the EXIT of its session
C18_ExitBeforeSocketRemoved ==
    (srv.state \in {"exit", "exited"}) => \A c \in Conns : ~AwaitsExit(c)

\* C18 is reached where the process has exited before the waiter of a stopped
\* session wrote EXIT to the attached client
C18_ExitedWithoutExitFrame ==
    /\ srv.state = "exited"
    /\ \E c \in Conns : AwaitsExit(c)

\* the session was started and is no longer running
LeftRunning == session.ptmx # "nil" /\ ~session.running

\* C19: a session that left Running is never running again; a write or a
\* resize on it returns the not-running error and does nothing on the PTY;
\* closing a closed session changes nothing
C19_StoppedSessionRefuses ==
    [][LeftRunning =>
         /\ ~session'.running
         /\ (session'.calls # session.calls /\ session'.op \in {"write", "resize"}) =>
               /\ session'.ret = "session not running"
               /\ session'.ptyOps = session.ptyOps
         /\ (session'.calls # session.calls /\ session'.op = "close"
               /\ session.ptmx = "closed") =>
               /\ session'.ptmx = session.ptmx /\ session'.child = session.child
               /\ session'.ptyOps = session.ptyOps
      ]_vars

\* C19 is reached where the child has exited, Wait has cleared running, and a
\* write was performed on the PTY master
C19_WriteAfterExit ==
    /\ LeftRunning
    /\ session.child = "reaped"
    /\ session.op = "write" /\ session.ret \in {"nil", "EIO"}

\* StopGraceful leaves its select
LeavesSelect == pane.pc = "select" /\ pane'.pc = "close"

ReadLength == U32(Expand(Take(Drop(codec.stream, 1), 4)))

\* C21: ReadMessage returns the whole payload of a frame whose length field
\* is 1 MiB, and refuses a frame whose length field is larger, with an error,
\* having allocated no buffer and read no byte of the payload
C21_LengthLimit ==
    (codec.op = "read" /\ codec.done /\ RunLen(codec.stream) >= 5) =>
       /\ (ReadLength = MaxMessageLen /\ RunLen(codec.stream) >= 5 + MaxMessageLen) =>
             /\ codec.res.err = ""
             /\ Norm(codec.res.data) = Norm(Take(Drop(codec.stream, 5), MaxMessageLen))
             /\ RunLen(codec.res.data) = MaxMessageLen
       /\ ReadLength >= MaxMessageLen + 1 =>
             /\ codec.res.err = "message too large"
             /\ codec.res.alloc = 0
             /\ codec.res.data = << >>
             /\ Norm(codec.res.rest) = Norm(Drop(codec.stream, 5))

\* C21 is reached where a frame of exactly 1 MiB was read in full and two
\* bytes stay in the reader
C21_OneMiBAccepted ==
    /\ codec.op = "read" /\ codec.done
    /\ codec.res.err = "" /\ RunLen(codec.res.data) = MaxMessageLen
    /\ RunLen(codec.res.rest) = 2

\* C22: the frames WriteMessage wrote back to back are read by ReadMessage
\* as the same messages, type and payload, with the bytes that follow them
\* left in the reader; DecodeResize gives back the rows and columns that
\* EncodeResize was given
C22_FramesRoundTrip ==
    /\ (codec.op = "frames" /\ codec.done) =>
          /\ codec.res.err = ""
          /\ Len(codec.decoded) = Len(codec.msgs)
          /\ \A i \in 1..Len(codec.msgs) :
                /\ codec.decoded[i].type = codec.msgs[i].type
                /\ Norm(codec.decoded[i].data) = Norm(codec.msgs[i].data)
          /\ Norm(codec.res.rest) = Norm(codec.tail)
    /\ (codec.op = "resize" /\ codec.done) =>
          codec.size = [rows |-> codec.rows, cols |-> codec.cols, err |-> ""]

\* C22 is reached where a frame of 1 MiB and a frame with no payload were
\* written back to back, followed by another byte, and read
C22_TwoFramesRead ==
    /\ codec.op = "frames" /\ codec.done
    /\ Len(codec.decoded) = 2
    /\ RunLen(codec.decoded[1].data) = MaxMessageLen
    /\ codec.decoded[2].data = << >>
    /\ codec.tail # << >>

\* C23: DecodeCreate gives back the session id, the workdir, the command and
\* the argument list that EncodeCreate was given, with as many arguments
C23_CreateRoundTrip ==
    (codec.op = "create" /\ codec.done) =>
       /\ codec.made = codec.create
       /\ Len(codec.made.args) = Len(codec.create.args)

\* C23 is reached where the last argument was the empty string and
\* DecodeCreate returned one argument fewer
C23_LastEmptyArgLost ==
    /\ codec.op = "create" /\ codec.done
    /\ Len(codec.create.args) > 0
    /\ codec.create.args[Len(codec.create.args)] = << >>
    /\ Len(codec.made.args) = Len(codec.create.args) - 1

\* the handler of c has read a frame that cannot be decoded
Undecodable(c) ==
    \/ \E err \in {"message too large", "unexpected EOF"} : ReadError(c, err)
    \/ HandleUnknown(c)

\* C24: a frame that cannot be decoded makes the handler leave its loop, and
\* the handler then closes the connection; no other connection and no session
\* is changed by either step
C24_UndecodableFrameCloses ==
    [][\A c \in Conns :
         /\ Undecodable(c) =>
               /\ pc'[c] = "removed"
               /\ c \notin DOMAIN clients'
         /\ (Undecodable(c) \/ (pc[c] = "removed" /\ pc'[c] # pc[c])) =>
               /\ pc[c] = "removed" => ~sockOpen'[c]
               /\ \A d \in Conns \ {c} :
                     /\ pc'[d] = pc[d] /\ sockOpen'[d] = sockOpen[d]
                     /\ peerOpen'[d] = peerOpen[d] /\ req'[d] = req[d]
                     /\ (d \in DOMAIN clients) = (d \in DOMAIN clients')
                     /\ d \in DOMAIN clients => clients'[d] = clients[d]
               /\ UNCHANGED << sessions, sessVars, loopVars, exitsTo >>
      ]_vars

\* C24 is reached where the handler of a connection attached to a running
\* session has dropped a frame of an unknown type and reads on, the connection
\* open and registered
C24_ReadsOnAfterUnknownType ==
    \E c \in Conns :
       /\ req[c].type = "UNKNOWN"
       /\ pc[c] = "read" /\ sockOpen[c] /\ peerOpen[c]
       /\ c \in DOMAIN clients /\ ~NoRunningSession(c)

\* the name is that of an agent family or starts with one: OPENCODE,
\* OPENCODE_*, CLAUDE, CLAUDE_*, GEMINI*, CODEX*
AgentName(key) ==
    \/ key = << "OPENCODE" >> \/ HasPrefix(key, << "OPENCODE", "_" >>)
    \/ key = << "CLAUDE" >>   \/ HasPrefix(key, << "CLAUDE", "_" >>)
    \/ HasPrefix(key, << "GEMINI" >>)
    \/ HasPrefix(key, << "CODEX" >>)

\* C25: the environment handed to a spawned child has no variable of an
\* agent family, has every other variable of the spawning process with its
\* value, and has TERM = xterm-256color
C25_ChildEnvScrubbed ==
    env.done =>
       /\ \A i \in 1..Len(env.out) : ~AgentName(env.out[i].key)
       /\ \A i \in 1..Len(env.environ) :
             LET e == env.environ[i] IN
             (~AgentName(e.key) /\ e.key # << "TERM" >>) => Getenv(env.out, e.key) = e.val
       /\ Getenv(env.out, << "TERM" >>) = "xterm-256color"

\* C25 is reached where the session daemon ran with CLAUDE_KEY set and the
\* child of its session was handed it
C25_DaemonChildGetsAgentKey ==
    /\ env.who = "session" /\ env.done
    /\ Getenv(env.out, << "CLAUDE", "_", "KEY" >>) = "secret"

\* the last call was a move of a ticket, through either entry point
Moved ==
    /\ board.last.op \in {"move", "moveWithWorkflow"}
    /\ findIndex(board.tickets, board.last.id) # 0

\* C26: started_at is set when a move first makes the status in_progress and
\* completed_at when it first makes it done, and a move of a ticket, through
\* either entry point, never changes a started_at or completed_at already set
C26_StampsSetOnce ==
    Moved =>
        LET was == board.last.before
            is  == getTicket(board.last.id) IN
        /\ was.startedAt # NoTime => is.startedAt = was.startedAt
        /\ was.completedAt # NoTime => is.completedAt = was.completedAt
        /\ is.status = "in_progress" => is.startedAt # NoTime
        /\ is.status = "done" => is.completedAt # NoTime

\* C26, the case found: a ticket started earlier was moved back to
\* in_progress by moveTicketWithWorkflow, and its started_at is now later
C26_StartedAtOverwritten ==
    /\ Moved
    /\ board.last.op = "moveWithWorkflow"
    /\ board.last.before.startedAt # NoTime
    /\ getTicket(board.last.id).startedAt > board.last.before.startedAt

\* the last call was updateTicket, or a move, which ends in updateTicket
Patched == board.last.op \in {"update", "move", "moveWithWorkflow"}

\* C27: update_ticket and move_ticket leave the ticket in the board under its
\* id, with its created_at, whatever the patch carries, and leave every field
\* the patch does not name as it was, updated_at excepted
C27_PatchFrame ==
    Patched =>
        /\ findIndex(board.tickets, board.last.id) # 0
        /\ LET was == board.last.before
               is  == getTicket(board.last.id) IN
           /\ is.id = was.id
           /\ is.createdAt = was.createdAt
           /\ \A k \in Fields \ (board.last.keys \cup {"updatedAt"}) : is[k] = was[k]

\* C27 is reached where a patch that names id and createdAt was applied
C27_PatchNamedId ==
    /\ board.last.op = "update"
    /\ {"id", "createdAt"} \subseteq board.last.keys
    /\ findIndex(board.tickets, board.last.id) # 0

\* C28: every ticket of the board has updated_at >= created_at, and an update
\* or move leaves updated_at no smaller than it was
C28_UpdatedAtMonotonic ==
    /\ \A i \in 1..Len(board.tickets) :
          board.tickets[i].updatedAt >= board.tickets[i].createdAt
    /\ (Patched /\ findIndex(board.tickets, board.last.id) # 0) =>
          getTicket(board.last.id).updatedAt >= board.last.before.updatedAt

\* C28, the case found: create_ticket accepted a ticket whose created_at is
\* later than its updated_at
C28_CreatedAfterUpdated ==
    /\ board.last.op = "create"
    /\ {"createdAt", "updatedAt"} \subseteq board.last.keys
    /\ getTicket(board.last.id).updatedAt < getTicket(board.last.id).createdAt

\* C29: board.json does not exist or holds the whole serialization of a board
\* the store held in memory earlier, also after a crash at any step of a
\* flush; and after a flush that succeeded board.json.tmp does not exist
C29_BoardFileAtomic ==
    /\ board.json.exists => (board.json.whole /\ board.json.text \in board.held)
    /\ board.last.op = "flushed" => ~board.tmp.exists

\* C29, the case found: after a crash board.json exists and holds part of a
\* serialization only
C29_PartialAfterCrash ==
    /\ board.pc = "crashed"
    /\ board.json.exists /\ ~board.json.whole

\* C30: while the process runs, a timer that is pending leads to a flush, and
\* after a flush that ran to its end board.json parses back into the board in
\* memory; a mutation clears the pending timer and sets one, so that the
\* mutations of one interval share one flush and at most one timer is pending
C30_DebouncedFlush ==
    /\ (board.timers # {}) ~> (board.pc = "flush")
    /\ [](board.last.op = "flushed" =>
             /\ board.json.exists /\ board.json.whole
             /\ Parse(board.json.text) = Memory(board))
    /\ [](Cardinality(board.timers) <= 1)
    /\ [][board'.nMut = board.nMut + 1 =>
             /\ board'.timers = {board'.saveTimeout}
             /\ board'.timers \cap board.timers = {}]_vars

\* C30 is reached where two mutations were made before the timer fired and
\* the flush of the second one's timer wrote the board in memory
C30_TwoMutationsFlushed ==
    /\ board.nMut = 2 /\ board.saveTimeout = 2
    /\ board.last.op = "flushed"
    /\ board.tickets # << >>
    /\ Parse(board.json.text) = Memory(board)

\* C31: a flush that fails leaves the board in memory as it was and returns
\* to the event loop (the store can be called again, no timer was set or
\* cleared); every mutation, also one after a failed flush, leaves a timer
\* pending; and a flush that then runs to its end writes all of the board in
\* memory, whatever an earlier flush left in board.json.tmp
C31_FailedFlushRecovers ==
    /\ [][(board.pc \in {"flush", "write", "rename"} /\ board'.pc = "idle"
              /\ board'.last.op = "flush failed") =>
             /\ Memory(board') = Memory(board)
             /\ board'.timers = board.timers
             /\ board'.json = board.json]_vars
    /\ [][board'.nMut = board.nMut + 1 =>
             (board'.pc = "idle" /\ board'.saveTimeout \in board'.timers)]_vars
    /\ [][(board.pc = "rename" /\ board'.last.op = "flushed") =>
             board'.json = WholeFile(Stringify(Memory(board')))]_vars

\* C31 is reached where a flush has failed while the board in memory holds
\* changes that board.json does not
C31_FailedWithUnsavedChanges ==
    /\ board.last.op = "flush failed"
    /\ board.pc = "idle"
    /\ board.nMut > 0
    /\ Memory(board) # load(board.json)

\* C32: a mutation of the board, through any entry point, appends its event
\* to what was sent to every connection board-subscribed at the time, and
\* sends nothing to the others (so that each subscriber gets the events in
\* the order of the mutations)
C32_MutationsPushedInOrder ==
    [][board'.nMut = board.nMut + 1 =>
          \A c \in WsClients :
             board'.events[c] = IF c \in board.subs
                                THEN Append(board.events[c], EventOf(board'))
                                ELSE board.events[c]]_vars

\* C32, the case found: a connection subscribed to the board when it was
\* empty, a ticket was created since, and nothing but the board was sent
C32_SubscriberMissedCreate ==
    \E c \in board.subs :
       /\ board.events[c] = << [type |-> "board:state", board |-> createBoard] >>
       /\ board.last.op = "create"
       /\ board.nMut = 1

\* C33: the tickets of each status are listed in the order of their creation
\* (ids are given out in that order); a create appends, an update or move
\* changes one ticket where it stands, a delete takes out the named ticket
\* and no other
C33_ColumnsInCreationOrder ==
    /\ [](\A status \in Statuses :
             LET col == getTicketsByStatus(board.tickets, status) IN
             \A i, j \in 1..Len(col) : i < j => col[i].id < col[j].id)
    /\ [][board'.nMut = board.nMut + 1 =>
             LET op == board'.last.op
                 id == board'.last.id IN
             CASE op = "create" ->
                    /\ Len(board'.tickets) = Len(board.tickets) + 1
                    /\ SubSeq(board'.tickets, 1, Len(board.tickets)) = board.tickets
               [] op = "delete" ->
                    \E i \in 1..Len(board.tickets) :
                       /\ board.tickets[i].id = id
                       /\ board'.tickets = splice(board.tickets, i)
               [] op \in {"update", "move", "moveWithWorkflow"} ->
                    /\ Len(board'.tickets) = Len(board.tickets)
                    /\ \A i \in 1..Len(board.tickets) :
                          IF board.tickets[i].id = id
                          THEN board'.tickets[i].id = id
                          ELSE board'.tickets[i] = board.tickets[i]
               [] OTHER -> board'.tickets = board.tickets]_vars

\* C33 is reached where the older of two tickets was moved into the column
\* of the younger and is listed before it
C33_MovedIntoColumnKeepsPlace ==
    /\ Len(board.tickets) = 2
    /\ board.last.op \in {"move", "moveWithWorkflow"}
    /\ board.last.id = board.tickets[1].id
    /\ board.last.before.status # board.tickets[1].status
    /\ board.tickets[1].status = board.tickets[2].status

\* the handler of c is inside WriteMessage(conn, SESSION_OK) for a CREATE or
\* ATTACH of the session of o: the reply is not yet on the wire
RepliesOK(c, o) ==
    /\ pc[c] = "writeLocked"
    /\ req[c].type \in {"CREATE", "ATTACH"}
    /\ req[c].reply = OK
    /\ req[c].id = objID[o]

\* C34: while the SESSION_OK of a CREATE or ATTACH for a session is still to
\* be written to the connection that asked, no DATA and no EXIT frame of
\* that session is written to that connection
C34_SessionOKFirst ==
    [][\A c \in Conns, o \in Objs :
          RepliesOK(c, o) => (~DataSent(o, c) /\ ~ExitSent(o, c))]_vars

\* C34, the case found: the reply is still to be written and the reader's
\* broadcast, which collected the connection earlier, writes DATA to it next
C34_DataAheadOfReply ==
    \E c \in Conns, o \in Objs :
       /\ RepliesOK(c, o)
       /\ readPC[o] = "send" /\ Head(readConns[o]) = c
       /\ Delivers(c)

\* C35: the bytes written to one connection are whole frames one after the
\* other: once every WriteMessage has returned, the client's ReadMessage
\* calls decode them without error into as many frames as were written,
\* the DATA frames carrying the chunks read
C35_FramesNotInterleaved ==
    WireQuiet =>
       LET r == ReadMessages(wire.stream) IN
       /\ r.err = ""
       /\ Len(r.msgs) = Len(wire.read) + wire.replies + (IF wire.exited THEN 1 ELSE 0)
       /\ DataPayloads(r.msgs) = wire.read

\* C35, the case found: a handler's reply and a broadcast were written to
\* the connection at the same time and the bytes no longer decode
C35_ReplyInsideFrame ==
    /\ WireQuiet
    /\ wire.replies = 1 /\ Len(wire.read) = 1 /\ ~wire.exited
    /\ ReadMessages(wire.stream).err # ""

\* the smaller of two numbers
Min(a, b) == IF a <= b THEN a ELSE b

\* C36: after the pushes since the last Clear, Len() is the smaller of their
\* number and the capacity, Get(i) for 0 <= i < Len() holds the glyphs of the
\* i-th oldest of the last Len() lines pushed, and Get outside [0, Len())
\* is nil
C36_RingBufferIsLastLines ==
    LET n == Len(term.pushed) IN
    /\ BufLen = Min(n, term.scrollback.capacity)
    /\ \A i \in 0..(BufLen - 1) :
          /\ Get(i).glyphs = term.pushed[n - BufLen + i + 1].glyphs
          /\ ~Get(i).isNil
    /\ \A i \in {-1, BufLen, BufLen + 1, term.scrollback.capacity} : Get(i) = NilLine

\* C36 is reached where more lines than the capacity were pushed and the
\* ring has wrapped to the middle of the slice, the oldest line evicted
C36_Overflowed ==
    /\ Len(term.pushed) > term.scrollback.capacity
    /\ term.scrollback.capacity > 1
    /\ term.scrollback.head # 0
    /\ Get(0).glyphs # term.pushed[1].glyphs

\* C38: whatever scrollUp and scrollDown calls and pushes to the scrollback
\* have happened, the viewport offset is at least 0 and at most the number
\* of lines in the scrollback
C38_ViewportWithinScrollback ==
    /\ 0 <= term.viewportOffset
    /\ term.viewportOffset <= BufLen

\* C38 is reached where scrollUp was asked for more lines than the
\* scrollback has ever held and stopped at its length
C38_CappedAtLength ==
    /\ Len(term.pushed) = 1
    /\ term.viewportOffset = 1
    /\ term.scrollback.capacity > 1

\* C37: Start leaves the mode Selecting whatever it was; Finish turns
\* Selecting into Selected when anchor and cursor differ and into Idle when
\* they are equal, and leaves any other mode as it is; Clear leaves the mode
\* Idle; Update leaves the mode as it is and moves the cursor only while the
\* mode is Selecting
C37_SelectionTransitions ==
    [][LET s == term.selection
           t == term.selection'
       IN  /\ \A pos \in Positions : Start(pos) => t.Mode = "SelectionSelecting"
           /\ Finish =>
                 t.Mode = IF s.Mode = "SelectionSelecting"
                          THEN (IF s.Anchor # s.Cursor THEN "SelectionSelected"
                                ELSE "SelectionIdle")
                          ELSE s.Mode
           /\ SelectionStateClear => t.Mode = "SelectionIdle"
           /\ \A pos \in Positions :
                 Update(pos) => /\ t.Mode = s.Mode
                                /\ t.Cursor # s.Cursor => s.Mode = "SelectionSelecting"]_vars

\* C37 is reached where a click without drag was finished: idle, with anchor
\* and cursor still at the place of the click
C37_ClickWithoutDrag ==
    /\ term.selection.Mode = "SelectionIdle"
    /\ term.selection.Anchor = term.selection.Cursor
    /\ term.selection.Anchor # ZeroPos

\* the live PTY sessions of a ticket
LiveSessions(t) == {s \in agent.sessions : s.ticketId = t}

\* C39: a ticket has at most one live PTY session, and its
\* terminalSessionId names that session when there is one and no session
\* when there is none
C39_OneLiveSessionPerTicket ==
    \A t \in AgentTickets :
       /\ Cardinality(LiveSessions(t)) <= 1
       /\ \A s \in LiveSessions(t) : agent.terminalSessionId[t] = s.id
       /\ agent.terminalSessionId[t] # NoSession =>
             \E s \in LiveSessions(t) : s.id = agent.terminalSessionId[t]

\* C39, the case found: a second agent:spawn for the ticket started a
\* second process; the ticket names it and nothing names the first
C39_SecondProcessSpawned ==
    \E t \in AgentTickets :
       /\ Cardinality(LiveSessions(t)) = 2
       /\ agent.terminalSessionId[t] = 2
       /\ agent.agentSessions[t] = NoSession

\* C40: once disconnect() was called no reconnect timer is pending and the
\* connection has no socket
C40_StaysDisconnected ==
    tui.disconnected => (~tui.reconnectTimer /\ tui.ws = NoSocket)

\* C40, the case found: after disconnect() the close event of the socket it
\* closed set a timer, and the timer's connect() opened a new socket
C40_ReconnectedAfterDisconnect ==
    /\ tui.disconnected
    /\ tui.ws # NoSocket
    /\ tui.readyState[tui.ws] = "OPEN"

====
